---- MODULE Spec2Model ----
(***************************************************************************)
(* A model of tcqt's tree merge (src/src/tcqt/transforms/merge.py), of its *)
(* on-disk geometry cache (src/src/tcqt/cache.py with the texture entry    *)
(* points of src/src/tcqt/texture/_add_texture.py), of the honeycomb       *)
(* height groups (src/src/tcqt/texture/hex.py), of the box continuity      *)
(* offsets of the brick and rooftop textures (texture/brick.py,            *)
(* texture/rooftop.py) and of the per-face pattern layout of the textures  *)
(* (texture/brick.py, rooftop.py, linear.py, hex_grid.py, tex_details.py). *)
(* The variable `mode` says which of them is running; each has a           *)
(* specification of its own.                                               *)
(*                                                                         *)
(* A primitive solid is an identifier 1..n.  A shape is the set of the     *)
(* input primitives united into it, so the boolean union of two shapes is  *)
(* the union of the two sets and two shapes are shape-equivalent exactly   *)
(* when the sets are equal.  The kernel may refuse a union: `bad` is the   *)
(* set of primitives the kernel cannot fuse, fixed for one merge call, and *)
(* a union raises exactly when one of its operands holds a bad primitive.  *)
(***************************************************************************)
EXTENDS Integers, Sequences, FiniteSets, TLC

\* ---------------------------------------------------------------- bounds
MaxShapes == 3
MaxBatch == 3
MaxWorkers == 2
MaxModules == 2

\* Python's None as a return value of the mergers; primitives are >= 1, so
\* the marker is no shape of the model.
None == {0}

VARIABLES
    mode,            \* "threaded": merge_shapes_in_batches_threaded, "sequential": merge_shapes_in_batches
    shapes,          \* the argument `shapes`
    bad,             \* primitives whose union the kernel refuses (the environment)
    batch_size,      \* the argument `batch_size`
    max_workers,     \* the argument `max_workers`, then the local it is rebound to
    cpu_count,       \* what os.cpu_count() returns, 0 for None
    pc,              \* position of the calling thread
    current_shapes,  \* local `current_shapes`
    batches,         \* local `batches` of the threaded merger
    next_batch,      \* local `next_batch`
    fstate,          \* per submitted future: "pending", "running", "finished"
    fresult,         \* per finished future: what future.result() gives
    snapshot,        \* as_completed: futures already finished when it started, not yet yielded
    waiter,          \* as_completed: futures finished since, in finishing order, not yet yielded
    yielded,         \* futures as_completed has yielded so far in this round, in order
    idx,             \* sequential merger: loop variable `i` of the batch loop
    result,          \* the value returned
    unions,          \* number of calls of Workplane.union made by the merge so far
    store,           \* the files of _CACHES_DIR: cache key -> entry
    caller,          \* per calling thread: the texture or wrapper call it is in
    hex_store,       \* the files of ./caches written by the honeycomb generator
    hcall,           \* per calling thread: the honeycomb texture call it is in
    global_rng,      \* state of the module-level generator of `random`
    tpc,             \* position of a Brick or RooftopTile texture call
    tex,             \* the texture object `self`
    targs,           \* the faces handed to _create_for_faces and the box they are of
    remaining,       \* _compute_box_offsets: local `faces`
    axis_i,          \* _compute_box_offsets: number of the axis of the next turn
    offsets,         \* _compute_box_offsets: local `offsets`, face -> offset
    passed,          \* the <<face, x_offset>> handed to the per-face generator so far
    gen,             \* the per-face generator: its locals and the geometry it builds
    frame            \* what _get_face_coordinate_system was given and has returned

mergeVars == <<mode, shapes, bad, batch_size, max_workers, cpu_count, pc,
               current_shapes,
               batches, next_batch, fstate, fresult, snapshot, waiter, yielded,
               idx, result, unions>>

cacheVars == <<store, caller>>

hexVars == <<hex_store, hcall, global_rng>>

contVars == <<tpc, tex, targs, remaining, axis_i, offsets, passed>>

layVars == <<gen, frame>>
texVars == <<hexVars, contVars, layVars>>

vars == <<mergeVars, cacheVars, texVars>>

\* ------------------------------------------------------------ the kernel
Min(a, b) == IF a < b THEN a ELSE b

Range(s) == {s[i] : i \in DOMAIN s}

\* Workplane.union(toUnion) raises for the operands the kernel cannot fuse.
UnionRaises(a, b) == (a \cup b) \cap bad # {}

\* Workplane.union(toUnion): the fused solid.
union(a, b) == a \cup b

\* ------------------------------------------------------ merge_batch_worker
\* The fold of lines 35-37: merged_shape = batch[0]; for shape in batch[1:]:
\* merged_shape = merged_shape.union(shape).  [raised, value].
RECURSIVE FoldUnion(_, _)
FoldUnion(merged_shape, rest) ==
    IF rest = <<>> THEN [raised |-> FALSE, value |-> merged_shape]
    ELSE IF UnionRaises(merged_shape, Head(rest))
         THEN [raised |-> TRUE, value |-> None]
         ELSE FoldUnion(union(merged_shape, Head(rest)), Tail(rest))

\* What the except branch of the worker returns (line 42).
WorkerFallback(batch) == IF batch # <<>> THEN batch[1] ELSE None

\* merge_batch_worker(batch) as the caller of the worker sees it: [raised, value].
\* The worker catches every Exception of the fold itself, so it never raises.
merge_batch_worker(batch) ==
    IF batch = <<>> THEN [raised |-> FALSE, value |-> None]
    ELSE IF Len(batch) = 1 THEN [raised |-> FALSE, value |-> batch[1]]
    ELSE LET r == FoldUnion(batch[1], Tail(batch))
         IN IF r.raised
            THEN [raised |-> FALSE, value |-> WorkerFallback(batch)]
            ELSE [raised |-> FALSE, value |-> r.value]

\* The number of times line 37 calls Workplane.union for a fold over `rest`:
\* the call that raises is made and ends the loop.
RECURSIVE FoldCalls(_, _)
FoldCalls(merged_shape, rest) ==
    IF rest = <<>> THEN 0
    ELSE IF UnionRaises(merged_shape, Head(rest)) THEN 1
         ELSE 1 + FoldCalls(union(merged_shape, Head(rest)), Tail(rest))

\* A worker that called union once per batch, whatever the batch holds.
OneCallPerBatch(batch) == IF batch = <<>> THEN 0 ELSE 1

\* Calls of Workplane.union made by one merge_batch_worker(batch): none on the
\* early returns of lines 28-32.
UnionCalls(batch) ==
    IF Len(batch) <= 1 THEN 0 ELSE FoldCalls(batch[1], Tail(batch))

\* ------------------------------------------------------------- batching
\* Python's s[lo:hi] for 0 <= lo, on a 1-based sequence.
Slice(s, lo, hi) == SubSeq(s, lo + 1, Min(hi, Len(s)))

\* A batch loop whose slices run one element too far.
RECURSIVE MakeBatchesOverlapping(_, _, _)
MakeBatchesOverlapping(cur, i, bs) ==
    IF i >= Len(cur) THEN <<>>
    ELSE LET batch == Slice(cur, i, i + bs + 1)
         IN (IF batch # <<>> THEN <<batch>> ELSE <<>>)
            \o MakeBatchesOverlapping(cur, i + bs, bs)

\* Lines 130-134: for i in range(0, len(current_shapes), batch_size):
\* batch = current_shapes[i : i + batch_size]; if batch: batches.append(batch)
RECURSIVE MakeBatches(_, _, _)
MakeBatches(cur, i, bs) ==
    IF i >= Len(cur) THEN <<>>
    ELSE LET batch == Slice(cur, i, i + bs)
         IN (IF batch # <<>> THEN <<batch>> ELSE <<>>) \o MakeBatches(cur, i + bs, bs)

\* A collection loop that puts each result in front of the list.
CollectedInFront(nb, i) ==
    IF fresult[i].raised
    THEN batches[i] \o nb
    ELSE IF fresult[i].value # None THEN <<fresult[i].value>> \o nb ELSE nb

\* Lines 152-160: what one yielded future adds to next_batch.
Collected(nb, i) ==
    IF fresult[i].raised
    THEN nb \o batches[i]
    ELSE IF fresult[i].value # None THEN Append(nb, fresult[i].value) ELSE nb

\* ================================================================ cache
\* The cache is the directory _CACHES_DIR of .brep files, shared by every
\* caller.  A solid's material is a set of cells <<kind, a, b>>; a Workplane
\* is the sequence of the objects on its stack, each a set of cells.
Callers == {"A", "B"}

\* The workplanes passed to the texture calls: 0 is a Workplane with no solid
\* and no face, 1 a solid with faces (a box).
Workplanes == {0, 1}
\* The pattern specs passed as `details`: two different Texture values.
Details == {1, 2}
\* The argument tuples the wrapped function is called with.
ArgValues == {1}

\* cache_key = None
NoKey == "<None>"
\* The cache_key strings callers pass to add_texture and cut_texture.
UserKeys == {"k"}

\* The functions decorated with cached_workplane: the function of qualified
\* name heavy_build as defined in module m (examples/caching.py and a script
\* that defines its own heavy_build).
QualName(func) == "heavy_build"

\* hashlib.sha256(repr((args, sorted(kwargs.items())))).hexdigest()[:16]: the
\* arguments of the model are small integers, whose repr are distinct.
ParamsHash(args) == ToString(args)

\* _make_cache_key(func, args, kwargs)
_make_cache_key(func, args) == QualName(func) \o "_" \o ParamsHash(args)

WrapperKeys == {_make_cache_key(f, a) : f \in 1..MaxModules, a \in ArgValues}
Keys == UserKeys \cup WrapperKeys

\* A call and its arguments.
TextureCalls ==
    [api : {"add_texture", "cut_texture"}, workplane : Workplanes,
     details : Details, cache_key : {NoKey} \cup UserKeys,
     func : {0}, args : {0}]
WrapperCalls ==
    [api : {"cached_workplane"}, workplane : {0}, details : {0},
     cache_key : {NoKey}, func : 1..MaxModules, args : ArgValues]
Calls == TextureCalls \cup WrapperCalls

\* The key a call reads and writes.
KeyOf(inp) ==
    IF inp.api = "cached_workplane" THEN _make_cache_key(inp.func, inp.args)
    ELSE inp.cache_key

\* A cache file: absent, present and unreadable, or a BREP compound.
Absent == [state |-> "absent", blob |-> {}]
Corrupt == [state |-> "corrupt", blob |-> {}]
Brep(compound) == [state |-> "ok", blob |-> compound]

\* The solid of a workplane.
SolidOf(workplane) == IF workplane = 0 THEN {} ELSE {<<"solid", workplane, 0>>}

\* details._create_for_faces(faces), details._cut_for_faces(faces) and the
\* wrapped func(*args): the generated Workplane.
Generate(inp) ==
    IF inp.api = "add_texture" THEN <<{<<"texture", inp.details, inp.workplane>>}>>
    ELSE IF inp.api = "cut_texture" THEN <<{<<"mortar", inp.details, inp.workplane>>}>>
    ELSE <<{<<QualName(inp.func), inp.func, inp.args>>}>>

\* cq.exporters.export(exportType="BREP", w=texture_geometry): the objects of
\* the workplane are written as one compound.
toCompound(w) == UNION Range(w)

\* cq.importers.importBrep(file) and Workplane("XY").newObject([cached_result.val()])
FromBrep(entry) == <<entry.blob>>

\* What a call returns: the material of the solid and what was cut from it.
NoReturn == [material |-> {}, cut |-> {}]

\* workplane + texture (lines 22, 45), workplane.cut(texture) (lines 58, 91),
\* and the wrapper's own return: [raised, value].  A union on a workplane
\* without a solid gives the texture alone (Texture._create_for_faces starts
\* from such a workplane, tex_details.py lines 24-26); a cut on it finds no
\* solid to cut.
Combine(inp, geometry) ==
    IF inp.api = "add_texture"
    THEN [raised |-> FALSE,
          value |-> [material |-> SolidOf(inp.workplane) \cup toCompound(geometry),
                     cut |-> {}]]
    ELSE IF inp.api = "cut_texture"
    THEN IF inp.workplane = 0 THEN [raised |-> TRUE, value |-> NoReturn]
         ELSE [raised |-> FALSE,
               value |-> [material |-> SolidOf(inp.workplane),
                          cut |-> toCompound(geometry)]]
    ELSE [raised |-> FALSE, value |-> [material |-> toCompound(geometry), cut |-> {}]]

\* The face selection of lines 24-36 and 60-72 were it to accept every workplane.
AnyWorkplaneHasFaces(inp) == FALSE

\* Lines 24-36 and 60-72 of _add_texture.py: a workplane with neither selected
\* faces nor a solid raises ValueError.
NoFacesToTexture(inp) == inp.api # "cached_workplane" /\ inp.workplane = 0

\* read_from_cache without its try/except around the import.
ReadFromCacheUnguarded(cache_key) ==
    IF cache_key = NoKey THEN [raised |-> FALSE, found |-> FALSE, value |-> <<>>]
    ELSE IF store[cache_key].state = "absent"
         THEN [raised |-> FALSE, found |-> FALSE, value |-> <<>>]
    ELSE IF store[cache_key].state = "corrupt"
         THEN [raised |-> TRUE, found |-> FALSE, value |-> <<>>]
    ELSE [raised |-> FALSE, found |-> TRUE, value |-> FromBrep(store[cache_key])]

\* read_from_cache that never finds an entry.
ReadFromCacheAlwaysMiss(cache_key) ==
    [raised |-> FALSE, found |-> FALSE, value |-> <<>>]

\* read_from_cache(cache_key): [raised, found, value]; found = FALSE is the
\* return value None.
read_from_cache(cache_key) ==
    IF cache_key = NoKey THEN [raised |-> FALSE, found |-> FALSE, value |-> <<>>]
    ELSE IF store[cache_key].state = "absent"
         THEN [raised |-> FALSE, found |-> FALSE, value |-> <<>>]
    ELSE IF store[cache_key].state = "corrupt"
         THEN [raised |-> FALSE, found |-> FALSE, value |-> <<>>]
    ELSE [raised |-> FALSE, found |-> TRUE, value |-> FromBrep(store[cache_key])]

\* How a write ends: the file is written; mkdir or the export fails before
\* the file is touched; the export fails halfway and leaves a partial file.
WriteOutcomes == {"written", "failed", "failed_partial"}

\* write_to_cache(cache_key, texture_geometry): the files afterwards.  The
\* function returns None in every case.
write_to_cache(cache_key, texture_geometry, outcome) ==
    IF cache_key = NoKey THEN store
    ELSE IF outcome = "written"
         THEN [store EXCEPT ![cache_key] = Brep(toCompound(texture_geometry))]
    ELSE IF outcome = "failed_partial"
         THEN [store EXCEPT ![cache_key] = Corrupt]
    ELSE store

\* write_to_cache without its try/except (lines 66, 75-76): a failing mkdir or
\* export reaches the caller.
WriteRaisesUnguarded(cache_key, outcome) ==
    cache_key # NoKey /\ outcome # "written"

\* Whether write_to_cache(cache_key, texture_geometry) raises.  Lines 66-76:
\* mkdir and the export run inside try/except Exception, which only logs a
\* warning; line 64 builds a path and line 61 returns.
WriteRaises(cache_key, outcome) ==
    FALSE

NoCall == [api |-> "none", workplane |-> 0, details |-> 0, cache_key |-> NoKey,
           func |-> 0, args |-> 0]

\* A caller outside any call.
Idle == [pc |-> "idle", inp |-> NoCall, seen |-> Absent, hit |-> FALSE,
         generated |-> FALSE, wrote |-> "none", ret |-> NoReturn]

\* ------------------------------------------------- honeycomb: texture/hex.py
\* Lengths are whole numbers of a unit small enough that every height the
\* generator computes is a whole number.

\* A face as the honeycomb generator sees it: the grid _calculate_hex_grid
\* lays over it (rows, cols) and the cells <<row, col>> for which
\* _hex_would_intersect_face is true.  A round face has one vertex, so its
\* single cell meets no test of _hex_would_intersect_face.
HexFaces ==
    { [name |-> "disc", rows |-> 1, cols |-> 1, included |-> {}],
      [name |-> "strip", rows |-> 1, cols |-> 2, included |-> {<<0, 0>>, <<0, 1>>}],
      [name |-> "wedge", rows |-> 2, cols |-> 2,
       included |-> {<<0, 1>>, <<1, 0>>, <<1, 1>>}] }

\* <<hex_height_min, hex_height_max>>
HeightRanges == {<<0, 60>>, <<60, 120>>, <<60, 60>>}

\* height_steps
StepChoices == {1, 2, 3}

\* random_seed
Seeds == {7, 42}

\* HoneycombTexture(...) values.
HexDetails ==
    { [hex_height_min |-> r[1], hex_height_max |-> r[2], height_steps |-> n,
       random_seed |-> seed] : r \in HeightRanges, n \in StepChoices, seed \in Seeds }

\* The arguments of a call workplane.faces(...).texture(details): one
\* selected face, no cache key.
HexCalls == [face : HexFaces, details : HexDetails, cache_key : {NoKey}]

\* The cells of the grid in the order of `for row ... for col ...`.
NumCells(face) == face.rows * face.cols
CellAt(face, n) == <<n \div face.cols, n % face.cols>>

\* The module-level generator of `random` used in place of an own one.
SharedRandom(seed) == global_rng

\* random.Random(seed): a generator of its own whose state is set by the seed
\* alone.  The generator is a linear congruential one modulo 8.
NewRandom(seed) == seed % 8

\* The state of a generator after one draw, and the draw: random() is
\* RngRandom / 4, a value of [0, 1).
RngNext(state) == (5 * state + 3) % 8
RngRandom(state) == RngNext(state) \div 2

\* rng.uniform(a, b) = a + (b - a) * random()
uniform(a, b, state) == a + ((b - a) * RngRandom(state)) \div 4

\* Lines 324-327: height_step_size.
height_step_size(details) ==
    IF details.height_steps > 1
    THEN (details.hex_height_max - details.hex_height_min) \div details.height_steps
    ELSE 0

\* Lines 388-397: the discretized height of a drawn height, [raised, value];
\* the division of line 390 raises ZeroDivisionError for a step size of 0.
Discretize(details, random_height) ==
    IF details.height_steps > 1
    THEN IF height_step_size(details) = 0
         THEN [raised |-> TRUE, value |-> 0]
         ELSE LET step_index ==
                      Min((random_height - details.hex_height_min)
                              \div height_step_size(details),
                          details.height_steps - 1)
              IN [raised |-> FALSE,
                  value |-> details.hex_height_min
                                + step_index * height_step_size(details)]
    ELSE [raised |-> FALSE, value |-> random_height]

\* Lines 404-406: height_groups[discretized_height].append(position).
AddToGroup(groups, height, cell) ==
    [h \in DOMAIN groups \cup {height} |->
        IF h \in DOMAIN groups
        THEN IF h = height THEN Append(groups[h], cell) ELSE groups[h]
        ELSE <<cell>>]

\* _generate_cache_hash (lines 416-465): the height groups, the face and the
\* details without random_seed and spacing_coefficient.
HexHash(groups, face, details) ==
    [height_groups |-> groups, face |-> face.name,
     hex_height_min |-> details.hex_height_min,
     hex_height_max |-> details.hex_height_max,
     height_steps |-> details.height_steps]

\* Lines 506-538: one hexagon per position of every group whose height is
\* not 0; a hexagon is <<"hex", row-major index of its cell, height>>.
HexShapes(groups, face) ==
    UNION { { <<"hex", groups[h][i][1] * face.cols + groups[h][i][2], h>> :
                i \in DOMAIN groups[h] } : h \in DOMAIN groups \ {0} }

\* The solid the texture is added to.
HexSolid == {<<"solid", 1, 0>>}

NoHexCall == [face |-> [name |-> "none", rows |-> 0, cols |-> 0, included |-> {}],
              details |-> [hex_height_min |-> 0, hex_height_max |-> 0,
                           height_steps |-> 0, random_seed |-> 0],
              cache_key |-> NoKey]

\* A thread outside any honeycomb call.
HexIdle == [pc |-> "idle", inp |-> NoHexCall, cell |-> 0, rng |-> 0,
            height_groups |-> <<>>, err |-> "none", read_inner |-> FALSE,
            wrote_inner |-> FALSE, ret |-> {}]

\* The honeycomb generator is not in use.
HexOff ==
    /\ hex_store = {}
    /\ hcall = [c \in Callers |-> HexIdle]
    /\ global_rng = 0

\* The merger is not in use.
MergeOff ==
    /\ shapes = <<>>
    /\ bad = {}
    /\ batch_size = 1
    /\ max_workers = 1
    /\ cpu_count = 0
    /\ pc = "off"
    /\ current_shapes = <<>>
    /\ batches = <<>>
    /\ next_batch = <<>>
    /\ fstate = <<>>
    /\ fresult = <<>>
    /\ snapshot = {}
    /\ waiter = <<>>
    /\ yielded = <<>>
    /\ idx = 0
    /\ result = None
    /\ unions = 0

\* The cache of cache.py is empty and no thread is in a call that uses it.
CacheOff ==
    /\ store = [k \in Keys |-> Absent]
    /\ caller = [c \in Callers |-> Idle]

\* ------------------------- continuity: texture/brick.py, texture/rooftop.py
MaxFaces == 4

\* Vectors are triples of whole numbers.
Abs(x) == IF x < 0 THEN -x ELSE x
Dot(a, b) == a[1] * b[1] + a[2] * b[2] + a[3] * b[3]
Cross(a, b) ==
    <<a[2] * b[3] - a[3] * b[2], a[3] * b[1] - a[1] * b[3], a[1] * b[2] - a[2] * b[1]>>

\* axes = [Vector(1, 0, 0), Vector(0, 1, 0), Vector(0, 0, 1)]
Axes == <<<<1, 0, 0>>, <<0, 1, 0>>, <<0, 0, 1>>>>

\* The faces of a box, each named by its outward normal f.normalAt().
BoxFaces ==
    {<<1, 0, 0>>, <<-1, 0, 0>>, <<0, 1, 0>>, <<0, -1, 0>>, <<0, 0, 1>>, <<0, 0, -1>>}

\* The side lengths <<xlen, ylen, zlen>> of a box centred at the origin, in
\* tenths of the unit of length.
Boxes == {<<70, 70, 70>>, <<20, 70, 50>>}

\* The lists of faces add_texture hands over: selected faces or all faces of
\* the solid, each face once, at least one.
FaceLists ==
    {s \in UNION {[1..n -> BoxFaces] : n \in 1..MaxFaces} :
        \A i, j \in DOMAIN s : i # j => s[i] # s[j]}

\* brick_width / tile_width, brick_height / tile_height as a caller can give
\* them; spacing, depth and overlap are left at one value.
TexVariants == {"brick", "mortar", "rooftop"}
TexWidths == {-30, -10, 0, 30}
TexHeights == {10, 20}

\* The <<variant, width, height>> a texture is constructed with.  The height
\* enters the row pitch only; the lower one, which makes the rooftop's row
\* pitch 0, is tried with the rooftop alone.
TexChoices ==
    {c \in TexVariants \X TexWidths \X TexHeights : c[1] = "rooftop" \/ c[3] = 20}

\* row_offset as a caller gives it: left out, None or a length.  A value is
\* <<>> for None and <<x>> for the float x.
NotPassed == [passed |-> FALSE, value |-> <<>>]
RowOffsetArgs ==
    {NotPassed, [passed |-> TRUE, value |-> <<>>], [passed |-> TRUE, value |-> <<20>>]}

\* The default of the dataclass field row_offset (brick.py line 21,
\* rooftop.py line 21).
RowOffsetDefault(variant) == IF variant = "rooftop" THEN <<>> ELSE <<0>>

\* __post_init__: a row_offset of None becomes half the brick or tile width
\* (the widths tried are even numbers of tenths).
__post_init__(width, row_offset) ==
    IF row_offset = <<>> THEN width \div 2 ELSE row_offset[1]


\* The optional arguments besides the lengths: row_offset (Brick,
\* RooftopTile), tilt in degrees (RooftopTile), angle_deg (Linear) and
\* edge_width (HexGrid, <<>> for None).
DefaultKw == [row_offset |-> NotPassed, tilt |-> 4, angle_deg |-> 45,
              edge_width |-> <<>>]

NoTexture == [variant |-> "none", width |-> 0, height |-> 0, spacing |-> 0,
              overlap |-> 0, depth |-> 0, row_offset |-> 0, kwargs |-> {},
              step |-> 0, tilt |-> 0, angle_deg |-> 0, edge_width |-> <<>>]
NoArgs == [faces |-> <<>>, box |-> <<0, 0, 0>>]

\* The PatternSpec invariant of the specification: all lengths > 0.
AllLengthsPositive(t) ==
    t.width > 0 /\ t.height > 0 /\ t.spacing > 0 /\ t.depth > 0

\* col_pitch and row_pitch (brick.py lines 62-63, 172; rooftop.py lines
\* 54-55, 115).
col_pitch(t) == t.width + t.spacing
row_pitch(t) ==
    IF t.variant = "rooftop" THEN t.height - t.overlap ELSE t.height + t.spacing

\* Python's a % b for b # 0: the result has the sign of b.
NoModulo(a, b) == a
PyMod(a, b) == IF b > 0 THEN a % b ELSE -((-a) % (-b))

\* _perpendicular_basis(axis): <<v1, v2>> from the first candidate that is
\* not parallel to the axis.
_perpendicular_basis(axis) ==
    LET first == CHOOSE i \in 1..3 :
                     /\ Cross(axis, Axes[i]) # <<0, 0, 0>>
                     /\ \A j \in 1..(i - 1) : Cross(axis, Axes[j]) = <<0, 0, 0>>
        v1 == Cross(axis, Axes[first])
    IN <<v1, Cross(axis, v1)>>

\* face.Center(), doubled: the centre of a face of the box lies on the line
\* of its normal, half a side length from the origin.
Center(face, b) == <<face[1] * b[1], face[2] * b[2], face[3] * b[3]>>

\* math.atan2(y, x) in degrees.  The face centres of a centred box project
\* onto the lines of the basis, where the value is exact; elsewhere it is
\* the diagonal of the quadrant.
atan2(y, x) ==
    IF y = 0 THEN (IF x >= 0 THEN 0 ELSE 180)
    ELSE IF x = 0 THEN (IF y > 0 THEN 90 ELSE -90)
    ELSE IF y > 0 THEN (IF x > 0 THEN 45 ELSE 135)
    ELSE (IF x > 0 THEN -45 ELSE -135)

\* _face_angle(face) for the basis of the axis.
_face_angle(face, axis, b) ==
    LET basis == _perpendicular_basis(axis)
        c == Center(face, b)
    IN atan2(Dot(c, basis[2]), Dot(c, basis[1]))

\* group = [f for f in faces if abs(f.normalAt().dot(axis)) < 0.01]
Group(faces, axis) ==
    LET perpendicular(f) == Dot(f, axis) = 0
    IN SelectSeq(faces, perpendicular)

\* sorted(group, key=_face_angle): a stable sort.
RECURSIVE SortByAngle(_, _, _)
SortByAngle(group, axis, b) ==
    IF group = <<>> THEN <<>>
    ELSE LET last == group[Len(group)]
             front == SortByAngle(SubSeq(group, 1, Len(group) - 1), axis, b)
             keep(f) == _face_angle(f, axis, b) <= _face_angle(last, axis, b)
             move(f) == _face_angle(f, axis, b) > _face_angle(last, axis, b)
         IN SelectSeq(front, keep) \o <<last>> \o SelectSeq(front, move)

\* face_width: the extent of the face's vertices along axis x normal.
face_width(face, axis, b) ==
    LET tangent == Cross(axis, face)
    IN Abs(tangent[1]) * b[1] + Abs(tangent[2]) * b[2] + Abs(tangent[3]) * b[3]

\* `cumulative` when the loop of lines 197-218 reaches sorted_group[n + 1].
RECURSIVE Cumulative(_, _, _, _)
Cumulative(sorted_group, n, axis, b) ==
    IF n = 0 THEN 0
    ELSE Cumulative(sorted_group, n - 1, axis, b) + face_width(sorted_group[n], axis, b)

\* The offsets one axis assigns to its sorted group.
GroupOffsets(sorted_group, axis, b, t) ==
    [f \in Range(sorted_group) |->
        LET n == CHOOSE i \in DOMAIN sorted_group : sorted_group[i] = f
        IN PyMod(Cumulative(sorted_group, n - 1, axis, b), col_pitch(t))]

\* faces = [f for f in faces if f not in group] without its effect.
RemoveNothing(faces, group) == faces

\* faces = [f for f in faces if f not in group]
Remove(faces, group) ==
    LET stays(f) == f \notin Range(group)
    IN SelectSeq(faces, stays)

\* offsets.get(id(face), 0.0)
OffsetOf(face) == IF face \in DOMAIN offsets THEN offsets[face] ELSE 0

\* The x_offset handed to the per-face generator for faces[i], i from 0
\* (brick.py lines 40-41, 52-53; rooftop.py lines 40-43).
PassedOffset(t, x_off, i) ==
    IF t.variant = "rooftop" THEN x_off + (i * t.width * 4) \div 10 ELSE x_off

\* Whether the per-face generator raises ZeroDivisionError in its layout
\* counts (brick.py lines 65-66, 103-104; rooftop.py lines 57-58).
GeneratorRaises(t) == col_pitch(t) = 0 \/ row_pitch(t) = 0

\* No Brick or RooftopTile call is in progress.
ContOff ==
    /\ tpc = "off"
    /\ tex = NoTexture
    /\ targs = NoArgs
    /\ remaining = <<>>
    /\ axis_i = 0
    /\ offsets = <<>>
    /\ passed = <<>>

\* ---------- per-face generation: brick.py, rooftop.py, linear.py,
\* ---------- hex_grid.py, tex_details.py
\* In-plane lengths of the generated geometry are whole twentieths of the
\* unit of length (twice the tenths of the arguments, so that half a pitch
\* is whole); lengths along the face normal are in 1 / ZScale tenths, the
\* common denominator of `/ 2`, of the 0.07 and of the sine in z_lift.
ZScale == 200000

\* math.sin(math.radians(tilt)) in thousandths, for the tilts tried.
Sin1000(tilt) == IF tilt = 4 THEN 70 ELSE 0

\* The largest whole number whose square is at most n.
Isqrt(n) == CHOOSE r \in 0..n : r * r <= n /\ (r + 1) * (r + 1) > n

\* int(math.ceil(k * diagonal / pitch)) for pitch > 0, with diagonal2 the
\* square of the diagonal: the least n with n * pitch >= k * diagonal.
CeilDiagonals(k, diagonal2, pitch) ==
    CHOOSE n \in 0..(k * Isqrt(diagonal2) + k) :
        /\ n * n * pitch * pitch >= k * k * diagonal2
        /\ n = 0 \/ (n - 1) * (n - 1) * pitch * pitch < k * k * diagonal2

\* 2 * diagonal, rounded down to a whole tenth.
TwoDiagonals(diagonal2) == Isqrt(4 * diagonal2)

\* The local x directions Plane(origin=center, normal=normal) can give a
\* face of the box: the kernel picks one, a unit vector in the face plane.
XDirs(face) == {d \in BoxFaces : Dot(d, face) = 0}

\* The length of the box along the direction d, in tenths.
Extent(d, b) == Abs(d[1]) * b[1] + Abs(d[2]) * b[2] + Abs(d[3]) * b[3]

\* face.BoundingBox(): the extents of the face along the global axes.
BoundingBox(face, b) ==
    [xlen |-> IF face[1] # 0 THEN 0 ELSE b[1],
     ylen |-> IF face[2] # 0 THEN 0 ELSE b[2],
     zlen |-> IF face[3] # 0 THEN 0 ELSE b[3]]

\* diagonal ** 2 of math.sqrt(bbox.xlen**2 + bbox.ylen**2).
Diagonal2(bbox) == bbox.xlen * bbox.xlen + bbox.ylen * bbox.ylen

\* Geometry is kept as its bounding box in the frame of the face workplane.
Nothing == [empty |-> TRUE, xlo |-> 0, xhi |-> 0, ylo |-> 0, yhi |-> 0,
            zlo |-> 0, zhi |-> 0]
Solid(xlo, xhi, ylo, yhi, zlo, zhi) ==
    IF xlo >= xhi \/ ylo >= yhi \/ zlo >= zhi THEN Nothing
    ELSE [empty |-> FALSE, xlo |-> xlo, xhi |-> xhi, ylo |-> ylo, yhi |-> yhi,
          zlo |-> zlo, zhi |-> zhi]
Max(a, b) == IF a > b THEN a ELSE b

\* a.union(b)
Fuse(a, b) ==
    IF a.empty THEN b
    ELSE IF b.empty THEN a
    ELSE Solid(Min(a.xlo, b.xlo), Max(a.xhi, b.xhi), Min(a.ylo, b.ylo),
               Max(a.yhi, b.yhi), Min(a.zlo, b.zlo), Max(a.zhi, b.zhi))

\* texture.intersect(cutting_solid) without its effect.
NoIntersect(a, b) == a

\* texture.intersect(cutting_solid)
Intersect(a, b) ==
    IF a.empty \/ b.empty THEN Nothing
    ELSE Solid(Max(a.xlo, b.xlo), Min(a.xhi, b.xhi), Max(a.ylo, b.ylo),
               Min(a.yhi, b.yhi), Max(a.zlo, b.zlo), Min(a.zhi, b.zhi))

\* a lies within b.
Within(a, b) ==
    \/ a.empty
    \/ /\ ~b.empty
       /\ b.xlo <= a.xlo /\ a.xhi <= b.xhi
       /\ b.ylo <= a.ylo /\ a.yhi <= b.yhi
       /\ b.zlo <= a.zlo /\ a.zhi <= b.zhi

\* wplane.add(outer_wire).toPending().extrude(distance) from the plane at
\* `origin` along the normal: the prism over the face's outer wire.
Prism(face, b, x_dir, origin, distance) ==
    Solid(-Extent(x_dir, b), Extent(x_dir, b),
          -Extent(Cross(face, x_dir), b), Extent(Cross(face, x_dir), b),
          Min(origin, origin + distance), Max(origin, origin + distance))

\* rarray(xSpacing, ySpacing, xCount, yCount).rect(xLen, yLen).extrude(d) on
\* the workplane moved by offset=(ox, oy, oz): the array is centred on the
\* origin of the workplane.  Spacings and lengths in tenths, ox and oy in
\* twentieths, oz and d in 1 / ZScale tenths.
Array(ox, oy, oz, xSpacing, ySpacing, xCount, yCount, xLen, yLen, d) ==
    Solid(ox - (xCount - 1) * xSpacing - xLen,
          ox + (xCount - 1) * xSpacing + xLen,
          oy - (yCount - 1) * ySpacing - yLen,
          oy + (yCount - 1) * ySpacing + yLen,
          Min(oz, oz + d), Max(oz, oz + d))

\* rarray raises ValueError unless spacings are positive and counts at
\* least 1.
ArrayRaises(xSpacing, ySpacing, xCount, yCount) ==
    xSpacing <= 0 \/ ySpacing <= 0 \/ xCount < 1 \/ yCount < 1

\* col_count, row_count and half_rows as the per-face generators compute
\* them for positive pitches (brick.py lines 65-70, 103-107; rooftop.py
\* lines 57-58, 69; linear.py lines 27-28, `count` kept in col_count;
\* hex_grid.py lines 42-43, xc kept in row_count and yc in col_count).
Counts(t, bbox) ==
    LET d2 == Diagonal2(bbox)
    IN IF t.variant \in {"brick", "mortar"}
       THEN LET rows == CeilDiagonals(2, d2, row_pitch(t)) + 2
                even == IF rows % 2 # 0 THEN rows + 1 ELSE rows
            IN [col_count |-> CeilDiagonals(2, d2, col_pitch(t)) + 2,
                row_count |-> even, half_rows |-> even \div 2]
       ELSE IF t.variant = "rooftop"
       THEN LET rows == CeilDiagonals(2, d2, row_pitch(t)) + 2
            IN [col_count |-> CeilDiagonals(2, d2, col_pitch(t)) + 2,
                row_count |-> rows, half_rows |-> rows \div 2]
       ELSE IF t.variant = "linear"
       THEN [col_count |-> (CeilDiagonals(1, d2, t.spacing) + 1) * 2,
             row_count |-> 1, half_rows |-> 0]
       ELSE [col_count |-> bbox.ylen \div t.width + 3,
             row_count |-> bbox.xlen \div t.width - 1, half_rows |-> 0]

\* even.union(odd) of _generate_bricks_for_face (brick.py lines 74-91).
BrickPattern(t, c, x_offset) ==
    LET even == Array(0, 2 * x_offset, 0, 2 * row_pitch(t), col_pitch(t),
                      c.half_rows, c.col_count, t.height, t.width,
                      t.depth * ZScale)
        odd == Array(2 * row_pitch(t), 2 * (x_offset + t.row_offset), 0,
                     2 * row_pitch(t), col_pitch(t), c.half_rows, c.col_count,
                     t.height, t.width, t.depth * ZScale)
    IN Fuse(even, odd)

\* horiz.union(vert_even).union(vert_odd) of _generate_mortar_for_face
\* (brick.py lines 129-154).
MortarPattern(t, c, x_offset, diagonal2) ==
    LET horiz == Array(0, 2 * x_offset, 0, row_pitch(t), 1, c.row_count, 1,
                       t.spacing, TwoDiagonals(diagonal2), -t.depth * ZScale)
        vert_even == Array(0, 2 * x_offset + col_pitch(t), 0,
                           2 * row_pitch(t), col_pitch(t), c.half_rows,
                           c.col_count, t.height, t.spacing, -t.depth * ZScale)
        vert_odd == Array(2 * row_pitch(t),
                          2 * (x_offset + t.row_offset) + col_pitch(t), 0,
                          2 * row_pitch(t), col_pitch(t), c.half_rows,
                          c.col_count, t.height, t.spacing, -t.depth * ZScale)
    IN Fuse(Fuse(horiz, vert_even), vert_odd)

\* step_sign (rooftop.py lines 65-67).
step_sign(x_dir) == IF -x_dir[3] > 0 THEN 1 ELSE -1

\* z_lift of row i (rooftop.py lines 71, 77-79), in 1 / ZScale tenths.
z_lift(t, c, x_dir, i) ==
    step_sign(x_dir) * (c.half_rows - i) * t.step * ZScale
        - Sin1000(t.tilt) * t.height * (100 + 7 * i)

\* max_lift (rooftop.py line 98), in 1 / ZScale tenths.
max_lift(t, c) == c.half_rows * t.step * ZScale

\* `row` of turn i of the loop of _generate_tiles_for_face (rooftop.py lines
\* 74-93); the rotation of the tile by tile_tilt is left out.
RooftopRow(t, c, x_dir, x_offset, i) ==
    LET row_y == (i - c.half_rows) * row_pitch(t)
        stagger == IF i % 2 = 1 THEN t.row_offset ELSE 0
    IN Array(2 * row_y, 2 * (x_offset + stagger), z_lift(t, c, x_dir, i), 1,
             col_pitch(t), 1, c.col_count, t.height, t.width,
             t.depth * ZScale)

\* A quarter turn of the workplane about its normal.
Rotate90(a) ==
    IF a.empty THEN a
    ELSE Solid(-a.yhi, -a.ylo, a.xlo, a.xhi, a.zlo, a.zhi)

\* The lines of LinearTexture._create_for_face (linear.py lines 35-41), for
\* an angle_deg of 0 or 90.
LinearPattern(t, c, diagonal2) ==
    LET lines == Array(0, 0, 0, t.spacing, t.spacing, 1, c.col_count,
                       TwoDiagonals(diagonal2), t.width, t.depth * ZScale)
    IN IF t.angle_deg = 90 THEN Rotate90(lines) ELSE lines

\* x_spacing and y_spacing of the hexagon arrays (hex_grid.py lines 29-35),
\* rounded down to whole tenths.
hex_x_spacing(t) == (3 * t.width) \div 2
hex_y_spacing(t) == (866 * t.width) \div 1000

\* (hex1 - holes1) + (hex2 - holes2) of HexGridTexture._create_for_face
\* (hex_grid.py lines 48-83).
HexGridPattern(t, c) ==
    LET hex1 == Array(0, 0, 0, hex_x_spacing(t), hex_y_spacing(t),
                      c.row_count, c.col_count, t.width, hex_y_spacing(t),
                      t.depth * ZScale)
        hex2 == Array(hex_x_spacing(t), hex_y_spacing(t), 0, hex_x_spacing(t),
                      hex_y_spacing(t), c.row_count, c.col_count, t.width,
                      hex_y_spacing(t), t.depth * ZScale)
    IN Fuse(hex1, hex2)

\* The prism the pattern is intersected with (tex_details.py lines 99-102,
\* brick.py lines 158-161, rooftop.py lines 99-106).
cutting_solid(t, c, face, b, x_dir) ==
    IF t.variant = "mortar"
    THEN Prism(face, b, x_dir, 0, -t.depth * 2 * ZScale)
    ELSE IF t.variant = "rooftop"
    THEN Prism(face, b, x_dir, -max_lift(t, c),
               t.depth * ZScale + 2 * max_lift(t, c))
    ELSE Prism(face, b, x_dir, 0, t.depth * 2 * ZScale)

\* _wire_edge(face, height, thickness): the wall along the outer wire, for a
\* positive thickness (tex_details.py lines 53-83).
_wire_edge(face, b, x_dir, height) == Prism(face, b, x_dir, 0, height * ZScale)

NoGen == [pc |-> "idle", x_dir |-> <<0, 0, 0>>, x_offset |-> 0,
          counts |-> [col_count |-> 0, row_count |-> 0, half_rows |-> 0],
          z_lifts |-> <<>>, result |-> Nothing, clip |-> Nothing,
          ret |-> Nothing, err |-> "none"]

\* ------------------------------ _get_face_coordinate_system: hex.py
\* A vector whose direction alone matters is a triple of whole numbers.  The
\* normals tried have components that are small or whole multiples of
\* Large, the reciprocal of the tolerance 1e-6, so that a normal within the
\* tolerance of an axis can be written down.
Large == 1000000

\* The normals a face can hand over: every direction of the cube lattice,
\* some oblique ones, and some within or just outside 1e-6 of the X axis
\* (those in lowest terms, so that normalized() keeps their components).
Normals ==
    (({-1, 0, 1} \X {-1, 0, 1} \X {-1, 0, 1}) \ {<<0, 0, 0>>})
        \cup {<<2, -1, 3>>, <<0, 3, -4>>, <<5, 0, 0>>}
        \cup {<<Large, 1, 0>>, <<-Large, 1, 0>>, <<Large, -1, 0>>,
              <<Large, 3, 0>>, <<-Large, 1, 1>>, <<1, Large, 0>>}

RotationChoices == {0, 90}

RECURSIVE Gcd(_, _)
Gcd(a, b) == IF b = 0 THEN a ELSE Gcd(b, a % b)

\* v.normalized() of a non-zero v: the same direction at a fixed length,
\* here the shortest whole vector of the direction.
normalized(v) ==
    LET g == Gcd(Gcd(Abs(v[1]), Abs(v[2])), Abs(v[3]))
    IN <<v[1] \div g, v[2] \div g, v[3] \div g>>

\* The square of a length as hi * Large^2 + lo.
Square(x) ==
    IF Abs(x) >= Large THEN [hi |-> (x \div Large) * (x \div Large), lo |-> 0]
    ELSE [hi |-> 0, lo |-> x * x]
Length2(v) ==
    [hi |-> Square(v[1]).hi + Square(v[2]).hi + Square(v[3]).hi,
     lo |-> Square(v[1]).lo + Square(v[2]).lo + Square(v[3]).lo]

\* The squared length of normal x reference for the reference axis number
\* i: the squared length of the normal without its component i.
CrossLength2(normal, i) ==
    Length2([k \in 1..3 |-> IF k = i THEN 0 ELSE normal[k]])

\* cross_magnitude > 1e-6 for the normal scaled to length 1:
\* |normal x reference|^2 * Large^2 > |normal|^2.
NotParallel(normal, i) ==
    \/ CrossLength2(normal, i).hi >= 1
    \/ CrossLength2(normal, i).lo > Length2(normal).hi

\* reference_candidates with the X axis in every place.
ParallelCandidates == <<<<1, 0, 0>>, <<1, 0, 0>>, <<1, 0, 0>>>>

\* reference_candidates (hex.py lines 58-62).
reference_candidates == <<<<1, 0, 0>>, <<0, 1, 0>>, <<0, 0, 1>>>>

\* The number of the reference axis a candidate is.
AxisOf(reference) == CHOOSE i \in 1..3 : reference[i] = 1

\* The candidates the loop of lines 66-77 accepts, by position.
Accepted(normal) ==
    {j \in 1..3 : NotParallel(normal, AxisOf(reference_candidates[j]))}

\* _get_face_coordinate_system(face_normal, details): what it returns or
\* that it raises.
_get_face_coordinate_system(face_normal, rotation_degrees) ==
    LET normal == normalized(face_normal)
        ok == Accepted(normal)
        first == CHOOSE j \in ok : \A k \in ok : j <= k
        u_vec == normalized(Cross(normal, reference_candidates[first]))
        v_vec == normalized(Cross(normal, u_vec))
    IN IF ok = {}
       THEN [pc |-> "raised", normal |-> face_normal,
             rotation_degrees |-> rotation_degrees, reference |-> 0,
             u_vec |-> <<0, 0, 0>>, v_vec |-> <<0, 0, 0>>]
       ELSE [pc |-> "returned", normal |-> face_normal,
             rotation_degrees |-> rotation_degrees, reference |-> first,
             u_vec |-> IF rotation_degrees = 90 THEN v_vec ELSE u_vec,
             v_vec |-> IF rotation_degrees = 90
                       THEN <<-u_vec[1], -u_vec[2], -u_vec[3]>> ELSE v_vec]

NoFrame == [pc |-> "idle", normal |-> <<0, 0, 0>>, rotation_degrees |-> 0,
            reference |-> 0, u_vec |-> <<0, 0, 0>>, v_vec |-> <<0, 0, 0>>]

\* No per-face generator and no frame construction is in progress.
LayOff ==
    /\ gen = NoGen
    /\ frame = NoFrame

\* ------------------------------------- default max_workers: merge.py
\* The length of the longest list the head of the threaded merger is given.
MaxCount == 12

\* max_workers=None, written 0: no call of the model passes 0 workers.
Auto == 0

\* What os.cpu_count() can return, 0 for None.
CpuCounts == {0, 1, 2, 4, 8}

\* cpu_count = os.cpu_count() or 4 (line 113).
AvailableParallelism(cpu) == IF cpu = 0 THEN 4 ELSE cpu

\* The default without the cap of the processor count.
UncappedWorkers(n, bs, cpu) == Max(1, n \div (bs * 2))

\* min(cpu_count, max(1, len(shapes) // (batch_size * 2))) (line 114).
default_max_workers(n, bs, cpu) ==
    Min(AvailableParallelism(cpu), Max(1, n \div (bs * 2)))

\* ------------------------------------------------------------------ Init
InputLists == {[i \in 1..n |-> {i}] : n \in 0..MaxShapes}

Init ==
    /\ mode \in {"threaded", "sequential"}
    /\ shapes \in InputLists
    /\ bad \in SUBSET (1..Len(shapes))
    /\ batch_size \in 1..MaxBatch
    /\ max_workers \in (IF mode = "threaded" THEN 1..MaxWorkers ELSE {1})
    /\ cpu_count = 0
    /\ pc = "call"
    /\ current_shapes = <<>>
    /\ batches = <<>>
    /\ next_batch = <<>>
    /\ fstate = <<>>
    /\ fresult = <<>>
    /\ snapshot = {}
    /\ waiter = <<>>
    /\ yielded = <<>>
    /\ idx = 0
    /\ result = None
    /\ unions = 0
    /\ store = [k \in Keys |-> Absent]
    /\ caller = [c \in Callers |-> Idle]
    /\ HexOff
    /\ ContOff
    /\ LayOff

\* --------------------------------------- merge_shapes_in_batches_threaded
poolVars == <<batches, fstate, fresult, snapshot, waiter, yielded>>
argVars == <<mode, shapes, bad, batch_size, max_workers, cpu_count>>

\* Lines 105-109: the two early returns.
CallReturnEarly ==
    /\ pc = "call"
    /\ Len(shapes) <= 1
    /\ result' = (IF shapes = <<>> THEN None ELSE shapes[1])
    /\ pc' = "done"
    /\ UNCHANGED <<cacheVars, texVars, unions, argVars, current_shapes, next_batch, poolVars, idx>>

\* Lines 111-120 (threaded) and 64 (sequential): a max_workers of None is
\* replaced by the default, then current_shapes = shapes.copy().
CallCopy ==
    /\ pc = "call"
    /\ Len(shapes) > 1
    /\ max_workers' = IF max_workers = Auto
                      THEN default_max_workers(Len(shapes), batch_size, cpu_count)
                      ELSE max_workers
    /\ current_shapes' = shapes
    /\ pc' = "loop"
    /\ UNCHANGED <<cacheVars, texVars, unions, mode, shapes, bad, batch_size, cpu_count,
                   next_batch, poolVars, idx, result>>

\* Lines 122-142: the loop test holds; the batches are cut and every batch is
\* submitted to a fresh executor.
RoundStart ==
    /\ pc = "loop"
    /\ mode = "threaded"
    /\ Len(current_shapes) > 1
    /\ batches' = MakeBatches(current_shapes, 0, batch_size)
    /\ next_batch' = <<>>
    /\ fstate' = [i \in 1..Len(batches') |-> "pending"]
    /\ fresult' = [i \in 1..Len(batches') |-> [raised |-> FALSE, value |-> None]]
    /\ snapshot' = {}
    /\ waiter' = <<>>
    /\ yielded' = <<>>
    /\ pc' = "pool"
    /\ UNCHANGED <<cacheVars, texVars, unions, argVars, current_shapes, idx, result>>

\* The executor's count of busy threads, were it never to see one.
NoneRunning == {}

Running == {i \in DOMAIN fstate : fstate[i] = "running"}

\* A worker thread of the executor takes the oldest queued task; the executor
\* runs at most max_workers threads.
StartTask(i) ==
    /\ pc \in {"pool", "collect"}
    /\ i \in DOMAIN fstate
    /\ fstate[i] = "pending"
    /\ \A j \in 1..(i - 1) : fstate[j] # "pending"
    /\ Cardinality(Running) < max_workers
    /\ fstate' = [fstate EXCEPT ![i] = "running"]
    /\ UNCHANGED <<cacheVars, texVars, unions, argVars, pc, current_shapes, batches, next_batch, fresult,
                   snapshot, waiter, yielded, idx, result>>

\* The worker thread returns from merge_batch_worker(batch) and the future is
\* set; a future that finishes while as_completed waits is queued on its waiter.
FinishTask(i) ==
    /\ pc \in {"pool", "collect"}
    /\ i \in DOMAIN fstate
    /\ fstate[i] = "running"
    /\ fstate' = [fstate EXCEPT ![i] = "finished"]
    /\ fresult' = [fresult EXCEPT ![i] = merge_batch_worker(batches[i])]
    /\ unions' = unions + UnionCalls(batches[i])
    /\ waiter' = (IF pc = "collect" THEN Append(waiter, i) ELSE waiter)
    /\ UNCHANGED <<cacheVars, texVars, argVars, pc, current_shapes, batches, next_batch,
                   snapshot, yielded, idx, result>>

\* Line 147: as_completed(future_to_batch) starts: the futures finished by now
\* are yielded first, in no particular order.
AsCompletedStart ==
    /\ pc = "pool"
    /\ snapshot' = {i \in DOMAIN fstate : fstate[i] = "finished"}
    /\ pc' = "collect"
    /\ UNCHANGED <<cacheVars, texVars, unions, argVars, current_shapes, batches, next_batch, fstate, fresult,
                   waiter, yielded, idx, result>>

\* Lines 146-160: as_completed yields a future that had finished before it
\* started, and the loop body collects its result.
YieldFinished(i) ==
    /\ pc = "collect"
    /\ i \in snapshot
    /\ snapshot' = snapshot \ {i}
    /\ next_batch' = Collected(next_batch, i)
    /\ yielded' = Append(yielded, i)
    /\ UNCHANGED <<cacheVars, texVars, unions, argVars, pc, current_shapes, batches, fstate, fresult,
                   waiter, idx, result>>

\* Lines 146-160: as_completed yields the futures that finished later in their
\* finishing order.
YieldWaiter ==
    /\ pc = "collect"
    /\ snapshot = {}
    /\ waiter # <<>>
    /\ waiter' = Tail(waiter)
    /\ next_batch' = Collected(next_batch, Head(waiter))
    /\ yielded' = Append(yielded, Head(waiter))
    /\ UNCHANGED <<cacheVars, texVars, unions, argVars, pc, current_shapes, batches, fstate, fresult,
                   snapshot, idx, result>>

\* Line 162: every future was yielded, the executor is shut down and the
\* round's outputs become the next round's input.
RoundEnd ==
    /\ pc = "collect"
    /\ Len(yielded) = Len(batches)
    /\ current_shapes' = next_batch
    /\ pc' = "loop"
    /\ UNCHANGED <<cacheVars, texVars, unions, argVars, next_batch, poolVars, idx, result>>

\* Lines 122 and 167 (threaded), 66 and 84 (sequential): the loop ends.
LoopExit ==
    /\ pc = "loop"
    /\ ~(Len(current_shapes) > 1)
    /\ result' = (IF current_shapes # <<>> THEN current_shapes[1] ELSE None)
    /\ pc' = "done"
    /\ UNCHANGED <<cacheVars, texVars, unions, argVars, current_shapes, next_batch, poolVars, idx>>

\* ------------------------------------------------ merge_shapes_in_batches
\* Lines 66-67: the loop test holds and next_batch is emptied.
SeqRoundStart ==
    /\ pc = "loop"
    /\ mode = "sequential"
    /\ Len(current_shapes) > 1
    /\ next_batch' = <<>>
    /\ idx' = 0
    /\ pc' = "for"
    /\ UNCHANGED <<cacheVars, texVars, unions, argVars, current_shapes, poolVars, result>>

\* Lines 71-80: what the batch starting at i appends to next_batch.
SeqAppend(nb, cur, i, bs) ==
    LET batch == Slice(cur, i, i + bs)
    IN IF Len(batch) = 1 THEN Append(nb, batch[1])
       ELSE LET merged_shape == merge_batch_worker(batch).value
            IN IF merged_shape # None THEN Append(nb, merged_shape) ELSE nb

\* Lines 70-80: one iteration of the batch loop.
SeqBatch ==
    /\ pc = "for"
    /\ idx < Len(current_shapes)
    /\ next_batch' = SeqAppend(next_batch, current_shapes, idx, batch_size)
    /\ unions' = unions + UnionCalls(Slice(current_shapes, idx, idx + batch_size))
    /\ idx' = idx + batch_size
    /\ UNCHANGED <<cacheVars, texVars, argVars, pc, current_shapes, poolVars, result>>

\* Line 82: current_shapes = next_batch
SeqRoundEnd ==
    /\ pc = "for"
    /\ idx >= Len(current_shapes)
    /\ current_shapes' = next_batch
    /\ pc' = "loop"
    /\ UNCHANGED <<cacheVars, texVars, unions, argVars, next_batch, poolVars, idx, result>>

Next ==
    \/ CallReturnEarly
    \/ CallCopy
    \/ RoundStart
    \/ \E i \in 1..(MaxShapes + 1) : StartTask(i)
    \/ \E i \in 1..(MaxShapes + 1) : FinishTask(i)
    \/ AsCompletedStart
    \/ \E i \in 1..(MaxShapes + 1) : YieldFinished(i)
    \/ YieldWaiter
    \/ RoundEnd
    \/ LoopExit
    \/ SeqRoundStart
    \/ SeqBatch
    \/ SeqRoundEnd

Spec == Init /\ [][Next]_vars

\* The head of merge_shapes_in_batches_threaded alone, up to the loop, for
\* longer lists and max_workers left at None.
WorkersInit ==
    /\ mode = "threaded"
    /\ shapes \in {[i \in 1..n |-> {i}] : n \in 0..MaxCount}
    /\ bad = {}
    /\ batch_size \in 1..MaxBatch
    /\ max_workers = Auto
    /\ cpu_count \in CpuCounts
    /\ pc = "call"
    /\ current_shapes = <<>>
    /\ batches = <<>>
    /\ next_batch = <<>>
    /\ fstate = <<>>
    /\ fresult = <<>>
    /\ snapshot = {}
    /\ waiter = <<>>
    /\ yielded = <<>>
    /\ idx = 0
    /\ result = None
    /\ unions = 0
    /\ CacheOff
    /\ HexOff
    /\ ContOff
    /\ LayOff

WorkersNext ==
    \/ CallReturnEarly
    \/ CallCopy

SpecWorkers == WorkersInit /\ [][WorkersNext]_vars

FairSpec == Spec /\ WF_vars(Next)

\* --------------------------------------- add_texture, cut_texture, wrapper
\* The entry a call's read meets on disk.
EntryOf(inp) == IF KeyOf(inp) = NoKey THEN Absent ELSE store[KeyOf(inp)]

\* The start of add_texture (lines 18-36), cut_texture (lines 54-72) or the
\* wrapper of cached_workplane (cache.py lines 89-92): the cache is read; a
\* hit returns at once, a miss goes on to generate unless the workplane has
\* nothing to texture.
Call(c, inp) ==
    /\ mode = "cache"
    /\ caller[c].pc \in {"idle", "returned", "raised"}
    /\ LET r == read_from_cache(KeyOf(inp))
           begun == [Idle EXCEPT !.inp = inp, !.seen = EntryOf(inp)]
       IN caller' = [caller EXCEPT ![c] =
              IF r.raised THEN [begun EXCEPT !.pc = "raised"]
              ELSE IF r.found
              THEN LET out == Combine(inp, r.value)
                   IN [begun EXCEPT !.pc = IF out.raised THEN "raised" ELSE "returned",
                                    !.hit = TRUE,
                                    !.ret = out.value]
              ELSE IF NoFacesToTexture(inp) THEN [begun EXCEPT !.pc = "raised"]
              ELSE [begun EXCEPT !.pc = "miss"]]
    /\ UNCHANGED <<mergeVars, texVars, store>>

\* The rest of a miss: the geometry is generated, written to the cache and
\* combined with the workplane (lines 39-47, 77-91; cache.py lines 93-95).
Finish(c, outcome) ==
    /\ mode = "cache"
    /\ caller[c].pc = "miss"
    /\ LET inp == caller[c].inp
           geometry == Generate(inp)
           out == Combine(inp, geometry)
           wraised == WriteRaises(KeyOf(inp), outcome)
       IN /\ store' = write_to_cache(KeyOf(inp), geometry, outcome)
          /\ caller' = [caller EXCEPT ![c] =
                 [@ EXCEPT !.pc = IF wraised \/ out.raised THEN "raised"
                                  ELSE "returned",
                           !.generated = TRUE,
                           !.wrote = IF KeyOf(inp) = NoKey THEN "none" ELSE outcome,
                           !.ret = IF wraised THEN NoReturn ELSE out.value]]
    /\ UNCHANGED <<mergeVars, texVars>>

\* A miss whose generation raises: details._create_for_faces (line 39),
\* details._cut_for_faces (line 77) or the wrapped func (cache.py line 93)
\* raises, nothing catches it and the call ends before its write_to_cache.
GenerationRaises(c) ==
    /\ mode = "cache"
    /\ caller[c].pc = "miss"
    /\ caller' = [caller EXCEPT ![c] = [@ EXCEPT !.pc = "raised"]]
    /\ UNCHANGED <<mergeVars, texVars, store>>

\* The environment: a cache file is damaged on disk.
CorruptEntry(k) ==
    /\ mode = "cache"
    /\ store[k].state = "ok"
    /\ store' = [store EXCEPT ![k] = Corrupt]
    /\ UNCHANGED <<mergeVars, texVars, caller>>

CacheInit ==
    /\ mode = "cache"
    /\ shapes = <<>>
    /\ bad = {}
    /\ batch_size = 1
    /\ max_workers = 1
    /\ cpu_count = 0
    /\ pc = "off"
    /\ current_shapes = <<>>
    /\ batches = <<>>
    /\ next_batch = <<>>
    /\ fstate = <<>>
    /\ fresult = <<>>
    /\ snapshot = {}
    /\ waiter = <<>>
    /\ yielded = <<>>
    /\ idx = 0
    /\ result = None
    /\ unions = 0
    /\ store = [k \in Keys |-> Absent]
    /\ caller = [c \in Callers |-> Idle]
    /\ HexOff
    /\ ContOff
    /\ LayOff

CacheNext ==
    \/ \E c \in Callers, inp \in Calls : Call(c, inp)
    \/ \E c \in Callers, outcome \in WriteOutcomes : Finish(c, outcome)
    \/ \E c \in Callers : GenerationRaises(c)
    \/ \E k \in Keys : CorruptEntry(k)

SpecCache == CacheInit /\ [][CacheNext]_vars

\* ------------------------------------ add_texture with a HoneycombTexture
\* add_texture up to the cell loop of _create_height_groups: the cache of
\* cache.py is asked with the call's key (_add_texture.py line 19), the face
\* goes through _create_for_faces, _create_for_face and
\* _generate_hex_texture_for_face, and the generator of the call is made
\* (hex.py line 332).
HexCall(c, inp) ==
    /\ mode = "hex"
    /\ hcall[c].pc = "idle"
    /\ ~read_from_cache(inp.cache_key).found
    /\ hcall' = [hcall EXCEPT ![c] =
           [HexIdle EXCEPT !.pc = "cells", !.inp = inp,
                           !.rng = NewRandom(inp.details.random_seed)]]
    /\ UNCHANGED <<mergeVars, cacheVars, contVars, layVars, hex_store, global_rng>>

\* One turn of the loop of lines 364-406: a cell outside the face is passed
\* over; for a cell of the face a height is drawn, discretized and the cell
\* put in the group of its height.
HexCell(c) ==
    /\ mode = "hex"
    /\ hcall[c].pc = "cells"
    /\ hcall[c].cell < NumCells(hcall[c].inp.face)
    /\ LET h == hcall[c]
           details == h.inp.details
           position == CellAt(h.inp.face, h.cell)
           random_height == uniform(details.hex_height_min,
                                    details.hex_height_max, h.rng)
           d == Discretize(details, random_height)
       IN hcall' = [hcall EXCEPT ![c] =
              IF position \notin h.inp.face.included
              THEN [h EXCEPT !.cell = @ + 1]
              ELSE IF d.raised
              THEN [h EXCEPT !.rng = RngNext(@), !.pc = "raised",
                             !.err = "ZeroDivisionError"]
              ELSE [h EXCEPT !.rng = RngNext(@), !.cell = @ + 1,
                             !.height_groups = AddToGroup(@, d.value, position)]]
    /\ UNCHANGED <<mergeVars, cacheVars, contVars, layVars, hex_store, global_rng>>

\* The rest of the call.  Without a height group the generator returns None
\* (lines 616-618); otherwise _generate_surface_from_height_groups looks in
\* ./caches for the hash of its arguments, returns the file's geometry if
\* there is one and else builds the hexagons, merges them and, unless the
\* merge returned None, writes them to ./caches (lines 484-570; `saved` is
\* whether that write succeeds).  _create_for_face returns an empty
\* Workplane() for None (lines 39-40); Texture._create_for_faces adds it to
\* its own empty Workplane() (tex_details.py line 26), and cadquery's union
\* raises ValueError for an operand without a solid.  A texture that is not
\* empty is written to the cache of cache.py under the call's key and united
\* with the workplane (_add_texture.py lines 42-47).
HexFinish(c, saved) ==
    /\ mode = "hex"
    /\ hcall[c].pc = "cells"
    /\ hcall[c].cell = NumCells(hcall[c].inp.face)
    /\ LET h == hcall[c]
           groups == h.height_groups
           hash == HexHash(groups, h.inp.face, h.inp.details)
           asked == DOMAIN groups # {}
           hit == asked /\ \E e \in hex_store : e.hash = hash
           cached == UNION {e.blob : e \in {x \in hex_store : x.hash = hash}}
           hexes == HexShapes(groups, h.inp.face)
           texture == IF ~asked THEN {} ELSE IF hit THEN cached ELSE hexes
           writes == asked /\ ~hit /\ hexes # {} /\ saved
       IN /\ hex_store' = IF writes
                          THEN hex_store \cup {[hash |-> hash, blob |-> hexes]}
                          ELSE hex_store
          /\ hcall' = [hcall EXCEPT ![c] =
                 IF texture = {}
                 THEN [h EXCEPT !.pc = "raised", !.err = "ValueError",
                                !.read_inner = hit, !.wrote_inner = writes]
                 ELSE [h EXCEPT !.pc = "returned", !.read_inner = hit,
                                !.wrote_inner = writes,
                                !.ret = HexSolid \cup texture]]
          /\ store' = IF texture = {} THEN store
                      ELSE write_to_cache(h.inp.cache_key, <<texture>>, "written")
    /\ UNCHANGED <<mergeVars, contVars, layVars, caller, global_rng>>

\* Some other code of the process draws from the module-level generator.
GlobalDraw ==
    /\ mode = "hex"
    /\ global_rng' = RngNext(global_rng)
    /\ UNCHANGED <<mergeVars, cacheVars, contVars, layVars, hex_store, hcall>>

HexInit ==
    /\ mode = "hex"
    /\ MergeOff
    /\ CacheOff
    /\ hex_store = {}
    /\ hcall = [c \in Callers |-> HexIdle]
    /\ global_rng \in 0..7
    /\ ContOff
    /\ LayOff

HexNext ==
    \/ \E c \in Callers, inp \in HexCalls : HexCall(c, inp)
    \/ \E c \in Callers : HexCell(c)
    \/ \E c \in Callers, saved \in BOOLEAN : HexFinish(c, saved)
    \/ GlobalDraw

SpecHoneycomb == HexInit /\ [][HexNext]_vars

\* ------------------------------- Brick and RooftopTile over several faces
\* BrickTexture(...) / RooftopTileTexture(...) / LinearTexture(...) /
\* HexGridTexture(...): the dataclass stores the values and __post_init__
\* looks at row_offset only (brick.py lines 16-26, rooftop.py lines 13-26,
\* linear.py lines 10-15, hex_grid.py lines 14-20).  The fields carry the
\* names of BrickTexture: `width` is brick_width, tile_width, thickness or
\* hex_diameter, `height` is brick_height or tile_height, `depth` is depth,
\* LinearTexture.height or hex_height, `spacing` is spacing or
\* side_thickness.  `kwargs` keeps which optional arguments the caller gave.
TexConstruct(variant, width, height, kw) ==
    /\ mode \in {"continuity", "layout"}
    /\ tpc = "off"
    /\ frame = NoFrame
    /\ LET field == IF kw.row_offset.passed THEN kw.row_offset.value
                    ELSE RowOffsetDefault(variant)
       IN tex' = [variant |-> variant, width |-> width, height |-> height,
                  spacing |-> 10,
                  overlap |-> IF variant = "rooftop" THEN 10 ELSE 0,
                  depth |-> 10,
                  row_offset |-> __post_init__(width, field),
                  kwargs |-> IF kw.row_offset.passed THEN {"row_offset"} ELSE {},
                  step |-> IF variant = "rooftop" THEN 3 ELSE 0,
                  tilt |-> IF variant = "rooftop" THEN kw.tilt ELSE 0,
                  angle_deg |-> IF variant = "linear" THEN kw.angle_deg ELSE 0,
                  edge_width |-> IF variant = "hex_grid" THEN kw.edge_width
                                 ELSE <<>>]
    /\ tpc' = "constructed"
    /\ UNCHANGED <<mergeVars, cacheVars, hexVars, layVars, targs, remaining, axis_i,
                   offsets, passed>>

\* add_texture / cut_texture hand the faces to _create_for_faces /
\* _cut_for_faces, which starts _compute_box_offsets (brick.py lines 36, 48,
\* 171-174; rooftop.py lines 36, 114-117).
TexCall(faces, b) ==
    /\ mode = "continuity"
    /\ tpc = "constructed"
    /\ targs' = [faces |-> faces, box |-> b]
    /\ remaining' = faces
    /\ axis_i' = 1
    /\ offsets' = <<>>
    /\ tpc' = "axes"
    /\ UNCHANGED <<mergeVars, cacheVars, hexVars, layVars, tex, passed>>

\* One turn of `for axis in axes` (brick.py lines 176-221, rooftop.py lines
\* 119-161).
AxisStep ==
    /\ mode = "continuity"
    /\ tpc = "axes"
    /\ LET axis == Axes[axis_i]
           group == Group(remaining, axis)
           sorted_group == SortByAngle(group, axis, targs.box)
           assigned == GroupOffsets(sorted_group, axis, targs.box, tex)
           after == IF axis_i = 3 THEN "faces" ELSE "axes"
       IN IF Len(group) < 3
          THEN /\ tpc' = after
               /\ axis_i' = axis_i + 1
               /\ UNCHANGED <<remaining, offsets>>
          ELSE IF col_pitch(tex) = 0
          THEN /\ tpc' = "raised"
               /\ UNCHANGED <<remaining, offsets, axis_i>>
          ELSE /\ offsets' = [f \in DOMAIN offsets \cup DOMAIN assigned |->
                                 IF f \in DOMAIN assigned THEN assigned[f]
                                 ELSE offsets[f]]
               /\ remaining' = Remove(remaining, group)
               /\ tpc' = after
               /\ axis_i' = axis_i + 1
    /\ UNCHANGED <<mergeVars, cacheVars, hexVars, layVars, tex, targs, passed>>

\* One turn of `for face in faces` of _create_for_faces / _cut_for_faces:
\* the face's offset is looked up and the per-face generator is called with
\* it (brick.py lines 39-41, 51-53; rooftop.py lines 39-43).
FaceStep ==
    /\ mode = "continuity"
    /\ tpc = "faces"
    /\ Len(passed) < Len(targs.faces)
    /\ LET i == Len(passed)
           face == targs.faces[i + 1]
           x_off == OffsetOf(face)
       IN passed' = Append(passed, <<face, PassedOffset(tex, x_off, i)>>)
    /\ tpc' = IF GeneratorRaises(tex) THEN "raised" ELSE "faces"
    /\ UNCHANGED <<mergeVars, cacheVars, hexVars, layVars, tex, targs, remaining, axis_i,
                   offsets>>

\* _create_for_faces / _cut_for_faces returns all_geometry.
TexReturn ==
    /\ mode = "continuity"
    /\ tpc = "faces"
    /\ Len(passed) = Len(targs.faces)
    /\ tpc' = "returned"
    /\ UNCHANGED <<mergeVars, cacheVars, hexVars, layVars, tex, targs, remaining, axis_i,
                   offsets, passed>>

ContInit ==
    /\ mode = "continuity"
    /\ MergeOff
    /\ CacheOff
    /\ HexOff
    /\ ContOff
    /\ LayOff

ContNext ==
    \/ \E c \in TexChoices : TexConstruct(c[1], c[2], c[3], DefaultKw)
    \/ \E faces \in FaceLists, b \in Boxes : TexCall(faces, b)
    \/ AxisStep
    \/ FaceStep
    \/ TexReturn

SpecContinuity == ContInit /\ [][ContNext]_vars

\* ------------------------------------------------------------ properties
\* The fold of a batch raised inside the worker.
BatchUnionRaises(batch) ==
    Len(batch) > 1 /\ FoldUnion(batch[1], Tail(batch)).raised

\* The threaded merger when every future is yielded in submission order: one
\* round's output list, and the value returned.
RECURSIVE InOrderRound(_)
InOrderRound(bs) ==
    IF bs = <<>> THEN <<>>
    ELSE LET r == merge_batch_worker(Head(bs))
         IN (IF r.raised THEN Head(bs)
             ELSE IF r.value # None THEN <<r.value>> ELSE <<>>)
            \o InOrderRound(Tail(bs))

RECURSIVE InOrderMerge(_, _)
InOrderMerge(cur, bs) ==
    IF Len(cur) <= 1 THEN (IF cur # <<>> THEN cur[1] ELSE None)
    ELSE InOrderMerge(InOrderRound(MakeBatches(cur, 0, bs)), bs)

RECURSIVE Flatten(_)
Flatten(ss) == IF ss = <<>> THEN <<>> ELSE Head(ss) \o Flatten(Tail(ss))

\* C1: in the threaded merge, when the pairwise union of a batch raises, every
\* shape of that batch is in the next round's input list once the batch's
\* future has been collected.
C1_FailedBatchCarriedIndividually ==
    (mode = "threaded" /\ pc = "collect") =>
        \A k \in 1..Len(yielded) :
            BatchUnionRaises(batches[yielded[k]]) =>
                Range(batches[yielded[k]]) \subseteq Range(next_batch)

\* C2: the shape a merge returns holds every input primitive, whatever unions
\* failed on the way.
C2_ResultHoldsEveryInputPrimitive ==
    (pc = "done" /\ shapes # <<>>) => result = UNION Range(shapes)

\* C3: every merge call runs to completion: it returns, None for an empty
\* input without running a round and otherwise the one shape that remains.
C3_MergeRunsToCompletion ==
    <>(/\ pc = "done"
       /\ IF shapes = <<>>
          THEN result = None /\ current_shapes = <<>>
          ELSE result # None /\ (Len(shapes) = 1 \/ current_shapes = <<result>>))

\* C4: for fixed shapes, batch_size, max_workers and failing unions, the
\* threaded merge returns the same shape for every order in which the futures
\* of a round complete: every run returns what the run that completes its
\* futures in submission order returns.
C4_ResultSameForEveryCompletionOrder ==
    (mode = "threaded" /\ pc = "done") =>
        result = InOrderMerge(shapes, batch_size)

\* C5: for a fixed input list both mergers return the same shape for every
\* batch_size and max_workers: every run returns what the run with one batch
\* holding the whole list (batch_size >= len(shapes)) returns.
C5_ResultSameForEveryBatchSize ==
    pc = "done" => result = merge_batch_worker(shapes).value

\* C6 as stated: in the next round's input list the output of batch i
\* precedes the output of batch j whenever i < j.
C6_NextListInBatchOrder ==
    (mode = "threaded" /\ pc = "collect") =>
        /\ Len(next_batch) = Len(yielded)
        /\ \A k, l \in 1..Len(yielded) : k < l => yielded[k] < yielded[l]

\* C6 amended: the next round's input list holds one output per collected
\* batch, in the order in which as_completed yielded the futures; the
\* sequential merger builds it in batch order.
C6_NextListInYieldOrder ==
    /\ (mode = "threaded" /\ pc = "collect") =>
           /\ Len(next_batch) = Len(yielded)
           /\ \A k, l \in 1..Len(yielded) : k # l => yielded[k] # yielded[l]
           /\ \A k \in 1..Len(yielded) :
                  next_batch[k] = merge_batch_worker(batches[yielded[k]]).value
    /\ (mode = "sequential" /\ pc = "for") =>
           next_batch = InOrderRound(
               MakeBatches(Slice(current_shapes, 0, idx), 0, batch_size))

\* A round whose second batch was collected before its first.
C6_Witness ==
    /\ mode = "threaded"
    /\ pc = "collect"
    /\ Len(yielded) >= 2
    /\ yielded[1] > yielded[2]
    /\ Len(batches[yielded[1]]) + Len(batches[yielded[2]]) >= 3

\* C7: the batches handed to the workers of a round are consecutive slices of
\* 1..batch_size shapes that cover the current list exactly once, and no
\* shape is in the batches of two workers.
C7_BatchesPartitionCurrentList ==
    (mode = "threaded" /\ pc \in {"pool", "collect"}) =>
        /\ Flatten(batches) = current_shapes
        /\ \A i \in DOMAIN batches : Len(batches[i]) \in 1..batch_size
        /\ \A i, j \in DOMAIN batches :
               i # j => Range(batches[i]) \cap Range(batches[j]) = {}

\* Two workers merge their batches at the same time, one of them a batch of
\* several shapes.
C7_Witness ==
    /\ mode = "threaded"
    /\ Cardinality(Running) >= 2
    /\ \E i \in Running : Len(batches[i]) >= 2

\* What a call does when nothing is cached: [raised, value].
Uncached(inp) ==
    IF NoFacesToTexture(inp) THEN [raised |-> TRUE, value |-> NoReturn]
    ELSE Combine(inp, Generate(inp))

\* The call of caller c is over.
Over(c) == caller[c].pc \in {"returned", "raised"}

\* C8: a call served from the cache ends as the uncached call with the same
\* arguments does, with the same geometry.
C8_HitEqualsFreshComputation ==
    \A c \in Callers :
        (caller[c].hit /\ Over(c)) =>
            /\ (caller[c].pc = "raised") = Uncached(caller[c].inp).raised
            /\ caller[c].ret = Uncached(caller[c].inp).value

\* The call of caller c was a miss that ended because its generation raised.
GenerationRaised(c) ==
    /\ caller[c].pc = "raised"
    /\ ~caller[c].hit
    /\ ~caller[c].generated
    /\ ~NoFacesToTexture(caller[c].inp)

\* C9: read_from_cache returns None without raising for a corrupt entry, and a
\* call that met a corrupt entry is a miss that ends as the call with no entry
\* for its key does: with the uncached call's result, or in its generation
\* raising.
C9_CorruptEntryIsAMiss ==
    /\ \A k \in Keys :
           store[k].state = "corrupt" =>
               read_from_cache(k) = [raised |-> FALSE, found |-> FALSE, value |-> <<>>]
    /\ \A c \in Callers :
           caller[c].seen.state = "corrupt" =>
               /\ ~caller[c].hit
               /\ Over(c) =>
                      \/ GenerationRaised(c)
                      \/ /\ (caller[c].pc = "raised") = Uncached(caller[c].inp).raised
                         /\ caller[c].ret = Uncached(caller[c].inp).value

\* A call met a corrupt entry, generated its geometry and returned.
C9_Witness ==
    \E c \in Callers :
        /\ caller[c].seen.state = "corrupt"
        /\ caller[c].pc = "returned"
        /\ caller[c].generated

\* Caller c starts a call in this step.
Begins(c) ==
    /\ caller[c].pc \in {"idle", "returned", "raised"}
    /\ caller'[c] # caller[c]

C11_WriteFailureNotPropagated ==
    /\ \A k \in Keys, outcome \in WriteOutcomes : ~WriteRaises(k, outcome)
    /\ \A c \in Callers :
           caller[c].wrote \in {"failed", "failed_partial"} =>
               /\ caller[c].pc = "returned"
               /\ caller[c].generated
               /\ caller[c].ret = Combine(caller[c].inp, Generate(caller[c].inp)).value

\* A texture call returned after its export failed halfway, and the partial
\* file is still there.
C11_Witness ==
    \E c \in Callers :
        /\ caller[c].wrote = "failed_partial"
        /\ caller[c].pc = "returned"
        /\ caller[c].inp.api \in {"add_texture", "cut_texture"}
        /\ store[KeyOf(caller[c].inp)] = Corrupt

\* Caller c ends its miss in this step and its write touches the file of key k.
Writes(c, k) ==
    /\ caller[c].pc = "miss"
    /\ caller'[c].pc # "miss"
    /\ KeyOf(caller[c].inp) = k
    /\ caller'[c].wrote \in {"written", "failed_partial"}

\* C12 as stated: the entry of a key is written at most once (a write finds
\* no file under its key), and no call changes the content of an entry that
\* has been written.
C12_WriteOnceReadMany ==
    [][\A k \in Keys :
          /\ \A c \in Callers : Writes(c, k) => store[k] = Absent
          /\ (caller' # caller /\ store[k] # Absent) => store'[k] = store[k]
      ]_vars

\* C12 amended: a call changes the entry of a key only as the write of a miss
\* on that key, that is of a call whose own read found no readable entry; a
\* call that read a readable entry leaves every entry as it is.
C12_OnlyMissesWrite ==
    [][\A k \in Keys :
          (caller' # caller /\ store'[k] # store[k]) =>
              \E c \in Callers :
                  /\ Writes(c, k)
                  /\ caller[c].seen.state # "ok"
                  /\ ~caller[c].hit
                  /\ caller'[c].generated
      ]_vars

\* Two calls missed on the same key at the same time; the first has written
\* its entry and the second is about to write over it.
C12_Witness ==
    \E c, d \in Callers :
        /\ c # d
        /\ caller[c].wrote = "written"
        /\ caller[d].pc = "miss"
        /\ KeyOf(caller[c].inp) = KeyOf(caller[d].inp)
        /\ store[KeyOf(caller[d].inp)].state = "ok"

\* C13: with cache_key = None read_from_cache finds nothing, write_to_cache
\* changes nothing, and no step of a texture call reads or changes a cache
\* storage, neither the files of cache.py nor those of ./caches.
C13_NoKeyUsesNoCache ==
    [][(\E c \in Callers : hcall'[c] # hcall[c]
                           /\ hcall'[c].inp.cache_key = NoKey) =>
          /\ ~read_from_cache(NoKey).found
          /\ \A o \in WriteOutcomes : write_to_cache(NoKey, <<HexSolid>>, o) = store
          /\ store' = store
          /\ hex_store' = hex_store
          /\ \A c \in Callers : ~hcall'[c].read_inner
      ]_vars

\* The honeycomb call of thread c went through its whole grid and is over.
HexOver(c) ==
    /\ hcall[c].pc \in {"returned", "raised"}
    /\ hcall[c].cell = NumCells(hcall[c].inp.face)

\* C17: a honeycomb call that generates no hexagon (no cell of the face, or
\* no group to build) returns without raising, and returns its input solid.
C17_EmptyTextureIsNoOp ==
    \A c \in Callers :
        (HexOver(c) /\ HexShapes(hcall[c].height_groups, hcall[c].inp.face) = {}) =>
            /\ hcall[c].pc = "returned"
            /\ hcall[c].ret = HexSolid

\* The draws the call of thread c has made: one per cell of the face among
\* the cells it has been through, and the one before a failed division.
Drawn(c) ==
    Cardinality({n \in 0..(hcall[c].cell - 1) :
                    CellAt(hcall[c].inp.face, n) \in hcall[c].inp.face.included})
        + (IF hcall[c].err = "ZeroDivisionError" THEN 1 ELSE 0)

\* C18: two honeycomb calls, one after the other or at the same time, with
\* the same random_seed have generators in the same state after the same
\* number of draws, whatever else draws random numbers; with the same face
\* and details they hold the same height groups at the same point of the
\* cell loop, so the same groups at the end.
C18_SameSeedSameHeights ==
    \A a, b \in Callers :
        (/\ hcall[a].pc # "idle"
         /\ hcall[b].pc # "idle"
         /\ hcall[a].inp.details.random_seed = hcall[b].inp.details.random_seed) =>
            /\ Drawn(a) = Drawn(b) => hcall[a].rng = hcall[b].rng
            /\ (/\ hcall[a].inp = hcall[b].inp
                /\ hcall[a].cell = hcall[b].cell
                /\ Drawn(a) = Drawn(b)) =>
                   hcall[a].height_groups = hcall[b].height_groups

\* Two threads made the same call, both went through the whole grid, and the
\* cells of the face fell into several height groups.
C18_Witness ==
    \E a, b \in Callers :
        /\ a # b
        /\ hcall[a].inp = hcall[b].inp
        /\ HexOver(a)
        /\ HexOver(b)
        /\ Cardinality(DOMAIN hcall[a].height_groups) >= 2
        /\ Drawn(a) >= 3

\* C19: when a honeycomb call has been through its grid, its cells are in at
\* most height_steps height groups, each group's height is a bucket height
\* hex_height_min + i * step_size with i < height_steps, and lies in
\* [hex_height_min, hex_height_max].
C19_HeightsSnappedToBuckets ==
    \A c \in Callers :
        HexOver(c) =>
            LET details == hcall[c].inp.details
                groups == hcall[c].height_groups
                step_size == (details.hex_height_max - details.hex_height_min)
                                 \div details.height_steps
            IN /\ Cardinality(DOMAIN groups) <= details.height_steps
               /\ \A h \in DOMAIN groups :
                      /\ details.hex_height_min <= h
                      /\ h <= details.hex_height_max
                      /\ \E i \in 0..(details.height_steps - 1) :
                             h = details.hex_height_min + i * step_size

\* The faces the next turn of the axis loop finds perpendicular to its axis.
Candidates == {f \in Range(remaining) : Dot(f, Axes[axis_i]) = 0}

\* The tangential widths of a set of faces, added up.
RECURSIVE SumWidths(_)
SumWidths(S) ==
    IF S = {} THEN 0
    ELSE LET f == CHOOSE x \in S : TRUE
         IN face_width(f, Axes[axis_i], targs.box) + SumWidths(S \ {f})

\* The faces of the group that come before f in angular order.
Before(f) ==
    {g \in Candidates : _face_angle(g, Axes[axis_i], targs.box)
                            < _face_angle(f, Axes[axis_i], targs.box)}

\* C14: for a pattern with a positive column pitch, a turn of the axis loop
\* that finds 3 or more faces gives each of them the sum of the widths of
\* the faces before it in angular order, modulo the column pitch: 0 for the
\* first face, a value in [0, pitch) for every face, and {0, W, 2W, 3W} mod
\* pitch for four faces of one width W.
C14_OffsetsAreRunningWidthSums ==
    [][(tpc = "axes" /\ col_pitch(tex) > 0 /\ Cardinality(Candidates) >= 3) =>
          /\ \A f \in Candidates :
                 /\ f \in DOMAIN offsets'
                 /\ offsets'[f] = SumWidths(Before(f)) % col_pitch(tex)
                 /\ Before(f) = {} => offsets'[f] = 0
                 /\ 0 <= offsets'[f]
                 /\ offsets'[f] < col_pitch(tex)
          /\ \A W \in {targs.box[1], targs.box[2], targs.box[3]} :
                 (/\ Cardinality(Candidates) = 4
                  /\ \A f \in Candidates :
                         face_width(f, Axes[axis_i], targs.box) = W) =>
                     {offsets'[f] : f \in Candidates}
                         = {(k * W) % col_pitch(tex) : k \in 0..3}
      ]_vars

\* The four sides of a cube of side 70 around the z axis have their offsets
\* for a column pitch of 40: 0, 70, 140 and 210 modulo 40.
C14_Witness ==
    /\ tpc = "faces"
    /\ col_pitch(tex) = 40
    /\ targs.box = <<70, 70, 70>>
    /\ DOMAIN offsets = {<<1, 0, 0>>, <<-1, 0, 0>>, <<0, 1, 0>>, <<0, -1, 0>>}
    /\ {offsets[f] : f \in DOMAIN offsets} = {0, 30, 20, 10}

\* C15: a turn of the axis loop never changes an offset already assigned;
\* every face it gives an offset leaves the list of the later turns, so no
\* face with an offset is a candidate again; a turn that finds fewer than 3
\* faces assigns nothing and removes nothing.
C15_FaceConsumedByOneGroup ==
    [][tpc = "axes" =>
          /\ \A f \in DOMAIN offsets :
                 /\ f \notin Range(remaining)
                 /\ f \in DOMAIN offsets'
                 /\ offsets'[f] = offsets[f]
          /\ \A f \in DOMAIN offsets' : f \notin Range(remaining')
          /\ Cardinality(Candidates) < 3 =>
                 /\ offsets' = offsets
                 /\ remaining' = remaining
      ]_vars

\* The axis loop is over; the x axis made a group, and two of its faces,
\* with the faces that were no candidates of the x axis, would have been 3
\* or more candidates of the y axis.
C15_Witness ==
    /\ tpc = "faces"
    /\ Cardinality(DOMAIN offsets) >= 3
    /\ \A f \in DOMAIN offsets : Dot(f, Axes[1]) = 0
    /\ Cardinality({f \in DOMAIN offsets : Dot(f, Axes[2]) = 0}) = 2
    /\ Cardinality({f \in Range(targs.faces) : Dot(f, Axes[2]) = 0}) >= 3

\* ------------------------------------------- one face, one generator
\* The textures tried on a single face: <<variant, width, height, kw>>.
\* Brick, mortar and rooftop with a column pitch of 0, 40 or 60, and the
\* rooftop with a row pitch of 0 as well; Linear and HexGrid with a positive
\* thickness or diameter.
LayChoices ==
    LET ro(arg) == [DefaultKw EXCEPT !.row_offset = arg]
    IN {<<v, w, 20, ro(arg)>> :
            v \in TexVariants, w \in {-10, 30, 50}, arg \in RowOffsetArgs}
       \cup {<<"rooftop", 30, 10, DefaultKw>>,
             <<"rooftop", 30, 20, [DefaultKw EXCEPT !.tilt = 0]>>}
       \cup {<<"linear", 10, 20, [DefaultKw EXCEPT !.angle_deg = a]>> :
                a \in {0, 90}}
       \cup {<<"hex_grid", w, 20, [DefaultKw EXCEPT !.edge_width = e]>> :
                w \in {20, 30}, e \in {<<>>, <<10>>}}

\* The phase offsets handed to a generator, below every positive pitch.
XOffsets == {0, 15, 35}

\* _generate_bricks_for_face / _generate_mortar_for_face /
\* _generate_tiles_for_face / _create_for_face is called for a face of the
\* box: the bounding box, the pitches and the counts are computed and the
\* face workplane is made (brick.py lines 59-72, 97-121; rooftop.py lines
\* 51-72; linear.py lines 18-31; hex_grid.py lines 25-43).
GenCall(face, b, x_dir, x_offset) ==
    /\ mode = "layout"
    /\ tpc = "constructed"
    /\ targs' = [faces |-> <<face>>, box |-> b]
    /\ IF GeneratorRaises(tex)
       THEN /\ tpc' = "raised"
            /\ gen' = [NoGen EXCEPT !.pc = "raised", !.x_dir = x_dir,
                                    !.x_offset = x_offset,
                                    !.err = "ZeroDivisionError"]
       ELSE /\ tpc' = "generating"
            /\ gen' = [NoGen EXCEPT !.pc = "build", !.x_dir = x_dir,
                                    !.x_offset = x_offset,
                                    !.counts = Counts(tex, BoundingBox(face, b))]
    /\ UNCHANGED <<mergeVars, cacheVars, hexVars, tex, remaining, axis_i,
                   offsets, passed, frame>>

\* One turn of `for i in range(row_count)` of _generate_tiles_for_face
\* (rooftop.py lines 74-94).
GenRow ==
    /\ mode = "layout"
    /\ tpc = "generating"
    /\ gen.pc = "build"
    /\ tex.variant = "rooftop"
    /\ LET i == Len(gen.z_lifts)
           row == RooftopRow(tex, gen.counts, gen.x_dir, gen.x_offset, i)
       IN gen' = [gen EXCEPT
                     !.z_lifts = Append(@, z_lift(tex, gen.counts, gen.x_dir, i)),
                     !.result = Fuse(@, row),
                     !.pc = IF i + 1 = gen.counts.row_count THEN "clip"
                            ELSE "build"]
    /\ UNCHANGED <<mergeVars, cacheVars, hexVars, contVars, frame>>

\* The arrays of the other generators are made and united (brick.py lines
\* 74-91, 129-154; linear.py lines 35-41; hex_grid.py lines 48-83).
GenBuild ==
    /\ mode = "layout"
    /\ tpc = "generating"
    /\ gen.pc = "build"
    /\ tex.variant # "rooftop"
    /\ LET face == targs.faces[1]
           d2 == Diagonal2(BoundingBox(face, targs.box))
           raises == /\ tex.variant = "hex_grid"
                     /\ ArrayRaises(hex_x_spacing(tex), hex_y_spacing(tex),
                                    gen.counts.row_count, gen.counts.col_count)
           built == IF tex.variant = "brick"
                    THEN BrickPattern(tex, gen.counts, gen.x_offset)
                    ELSE IF tex.variant = "mortar"
                    THEN MortarPattern(tex, gen.counts, gen.x_offset, d2)
                    ELSE IF tex.variant = "linear"
                    THEN LinearPattern(tex, gen.counts, d2)
                    ELSE HexGridPattern(tex, gen.counts)
       IN IF raises
          THEN /\ gen' = [gen EXCEPT !.pc = "raised", !.err = "ValueError"]
               /\ tpc' = "raised"
          ELSE /\ gen' = [gen EXCEPT !.pc = "clip", !.result = built]
               /\ tpc' = tpc
    /\ UNCHANGED <<mergeVars, cacheVars, hexVars, tex, targs, remaining,
                   axis_i, offsets, passed, frame>>

\* The pattern is intersected with the prism over the face's outer wire and
\* returned, HexGrid's with its edge wall added (tex_details.py lines
\* 99-105, brick.py lines 158-164, rooftop.py lines 98-107, hex_grid.py
\* lines 84-88).
GenClip ==
    /\ mode = "layout"
    /\ tpc = "generating"
    /\ gen.pc = "clip"
    /\ LET face == targs.faces[1]
           prism == cutting_solid(tex, gen.counts, face, targs.box, gen.x_dir)
           clipped == Intersect(gen.result, prism)
       IN gen' = [gen EXCEPT
                     !.pc = "returned",
                     !.clip = prism,
                     !.ret = IF tex.variant = "hex_grid" /\ tex.edge_width # <<>>
                             THEN Fuse(clipped, _wire_edge(face, targs.box,
                                                           gen.x_dir, tex.depth))
                             ELSE clipped]
    /\ tpc' = "returned"
    /\ UNCHANGED <<mergeVars, cacheVars, hexVars, tex, targs, remaining,
                   axis_i, offsets, passed, frame>>

\* _get_face_coordinate_system(face_normal, details) is called and returns
\* or raises (hex.py lines 46-102).
FrameCall(face_normal, rotation_degrees) ==
    /\ mode = "layout"
    /\ tpc = "off"
    /\ frame = NoFrame
    /\ frame' = _get_face_coordinate_system(face_normal, rotation_degrees)
    /\ UNCHANGED <<mergeVars, cacheVars, hexVars, contVars, gen>>

LayInit ==
    /\ mode = "layout"
    /\ MergeOff
    /\ CacheOff
    /\ HexOff
    /\ ContOff
    /\ LayOff

LayNext ==
    \/ \E c \in LayChoices : TexConstruct(c[1], c[2], c[3], c[4])
    \/ \E b \in Boxes, face \in BoxFaces :
           \E x_dir \in XDirs(face), x_offset \in XOffsets :
               GenCall(face, b, x_dir, x_offset)
    \/ GenRow
    \/ GenBuild
    \/ GenClip
    \/ \E n \in Normals, r \in RotationChoices : FrameCall(n, r)

SpecLayout == LayInit /\ [][LayNext]_vars

\* C16: the x_offset handed to the per-face generator for a face is the
\* offset _compute_box_offsets gave the face, 0 for a face without one,
\* wherever the face stands in the list.
C16_GeneratorGetsResolverOffset ==
    \A i \in DOMAIN passed : passed[i][2] = OffsetOf(passed[i][1])

\* C20: a texture object exists, and is laid out, only with all lengths and
\* both pitches positive: any other value is rejected when it is given.
C20_NonPositiveLengthRejected ==
    tpc # "off" =>
        /\ AllLengthsPositive(tex)
        /\ col_pitch(tex) > 0
        /\ row_pitch(tex) > 0

\* C21: a BrickTexture or RooftopTileTexture constructed without a
\* row_offset has row_offset = (cell width + spacing) / 2, half the column
\* pitch.
C21_RowOffsetDefaultsToHalfPitch ==
    (tpc # "off" /\ tex.variant \in TexVariants /\ "row_offset" \notin tex.kwargs)
        => 2 * tex.row_offset = col_pitch(tex)

\* The face itself, as the rectangle the generated grid has to cover.
FaceRectangle ==
    Prism(targs.faces[1], targs.box, gen.x_dir, 0, 1)

\* The pattern reaches at least as far as the face along both in-plane
\* directions.
CoversFace(pattern) ==
    /\ ~pattern.empty
    /\ pattern.xlo <= FaceRectangle.xlo /\ FaceRectangle.xhi <= pattern.xhi
    /\ pattern.ylo <= FaceRectangle.ylo /\ FaceRectangle.yhi <= pattern.yhi

\* C22: the grid a generator lays out with counts ceil(2D / pitch) + 2,
\* centred on the face centre, reaches at least to the face's extent in both
\* in-plane directions, for a face with its normal along X, Y or Z and every
\* phase offset in [0, pitch).
C22_GridOverCoversFace ==
    (gen.pc \in {"clip", "returned"} /\ tex.variant \in {"brick", "rooftop", "linear"})
        => CoversFace(gen.result)

\* C23: the geometry a per-face generator returns lies within the prism
\* extruded from the face's outer wire, for every variant: its bounding box
\* is inside the prism's and does not pass the face silhouette.
C23_ClippedTextureWithinPrism ==
    gen.pc = "returned" =>
        /\ Within(gen.ret, cutting_solid(tex, gen.counts, targs.faces[1],
                                         targs.box, gen.x_dir))
        /\ \/ gen.ret.empty
           \/ /\ FaceRectangle.xlo <= gen.ret.xlo /\ gen.ret.xhi <= FaceRectangle.xhi
              /\ FaceRectangle.ylo <= gen.ret.ylo /\ gen.ret.yhi <= FaceRectangle.yhi

\* A HexGrid texture with an edge wall whose pattern passed the silhouette
\* before it was clipped has been returned.
C23_Witness ==
    /\ gen.pc = "returned"
    /\ tex.variant = "hex_grid"
    /\ tex.edge_width # <<>>
    /\ ~gen.ret.empty
    /\ ~Within(gen.result, gen.clip)

\* C24: a max_workers left at None becomes min(available parallelism,
\* max(1, N div (2 * batch_size))) for N input shapes, which is at least 1
\* and at most the available parallelism.
C24_DefaultWorkersFormulaAndRange ==
    [][(pc = "call" /\ max_workers = Auto /\ pc' = "loop") =>
          LET N == Len(shapes)
              wanted == IF N \div (2 * batch_size) >= 1
                        THEN N \div (2 * batch_size) ELSE 1
              parallelism == AvailableParallelism(cpu_count)
          IN /\ max_workers' = IF parallelism < wanted THEN parallelism
                               ELSE wanted
             /\ max_workers' >= 1
             /\ max_workers' <= parallelism]_vars

\* A default that the processor count has capped: more batches' worth of
\* shapes than processors.
C24_Witness ==
    /\ pc = "loop"
    /\ cpu_count = 2
    /\ max_workers = 2
    /\ Len(shapes) \div (2 * batch_size) > 2

\* C25: every row i of the rooftop lies, along the face normal, inside the
\* clip prism: [z_lift_i, z_lift_i + depth] is within
\* [-max_lift, depth + max_lift] with max_lift = half_rows * step.
C25_LiftedRowsInsideClipPrism ==
    tex.variant = "rooftop" =>
        \A i \in DOMAIN gen.z_lifts :
            /\ -max_lift(tex, gen.counts) <= gen.z_lifts[i]
            /\ gen.z_lifts[i] + tex.depth * ZScale
                   <= tex.depth * ZScale + max_lift(tex, gen.counts)

\* C26: frame construction never fails for a non-zero normal: some
\* reference axis is accepted, the first accepted one of X, Y, Z defines u,
\* v is normal x u, no ValueError is raised, and u, v and the normal are
\* mutually orthogonal; the same for _perpendicular_basis on the axes it is
\* given.
C26_FrameConstructionNeverFails ==
    /\ frame.pc # "idle" =>
          /\ frame.pc = "returned"
          /\ frame.reference \in 1..3
          /\ NotParallel(normalized(frame.normal), frame.reference)
          /\ \A j \in 1..(frame.reference - 1) :
                 ~NotParallel(normalized(frame.normal), j)
          /\ frame.u_vec # <<0, 0, 0>> /\ frame.v_vec # <<0, 0, 0>>
          /\ Dot(frame.u_vec, frame.normal) = 0
          /\ Dot(frame.v_vec, frame.normal) = 0
          /\ Dot(frame.u_vec, frame.v_vec) = 0
          /\ frame.rotation_degrees = 0 =>
                 /\ Cross(frame.u_vec, Cross(frame.normal, Axes[frame.reference]))
                        = <<0, 0, 0>>
                 /\ frame.v_vec = normalized(Cross(frame.normal, frame.u_vec))
    /\ \A i \in 1..3 :
          LET basis == _perpendicular_basis(Axes[i])
          IN /\ basis[1] # <<0, 0, 0>> /\ basis[2] # <<0, 0, 0>>
             /\ Dot(basis[1], Axes[i]) = 0
             /\ Dot(basis[2], Axes[i]) = 0
             /\ Dot(basis[1], basis[2]) = 0

\* A frame has been returned for a normal within the tolerance of the X
\* axis without being along it: X was passed over and Y defines u.
C26_Witness ==
    /\ frame.pc = "returned"
    /\ frame.normal = <<Large, 1, 0>>
    /\ frame.reference = 2

\* C27: the rounds of the threaded merge are separated by a barrier: when
\* the batches of a round are submitted, every batch of the round before
\* has completed and its output has been collected into the list the new
\* round works on; and never are more than max_workers batches being merged
\* at once.
C27_RoundBarrierAndWorkerCap ==
    /\ [](Cardinality({i \in DOMAIN fstate : fstate[i] = "running"}) <= max_workers)
    /\ [][(mode = "threaded" /\ pc = "loop" /\ pc' = "pool") =>
             /\ \A i \in DOMAIN fstate : fstate[i] = "finished"
             /\ Len(yielded) = Len(fstate)
             /\ Range(yielded) = DOMAIN fstate
             /\ fstate # <<>> => current_shapes = next_batch
             /\ \A i \in DOMAIN fstate' : fstate'[i] = "pending"]_vars

\* The only batch of a second round is being merged, after the two batches
\* of the first round.
C27_Witness ==
    /\ mode = "threaded"
    /\ pc = "pool"
    /\ Len(shapes) = 3
    /\ Len(current_shapes) = 2
    /\ fstate = <<"running">>

\* ---------------------------------------------------------------------
\* C28: when no union fails and batch_size >= 2, the round of the threaded
\* merger that ends on n > 1 shapes leaves exactly ceil(n / batch_size)
\* shapes, and a finished merge of N >= 1 shapes has called Workplane.union
\* exactly N - 1 times, whatever batch_size, max_workers and the order in
\* which the worker threads run and finish.
CeilDiv(n, d) == (n + d - 1) \div d

NoUnionFails == bad = {} /\ batch_size >= 2

C28_RoundSizeAndUnionCount ==
    [][(mode = "threaded" /\ NoUnionFails) =>
          /\ (pc = "collect" /\ pc' = "loop") =>
                 Len(current_shapes') = CeilDiv(Len(current_shapes), batch_size)
          /\ (pc' = "done" /\ Len(shapes) >= 1) => unions' = Len(shapes) - 1]_vars

\* A merge of three shapes in batches of two has finished: two rounds, the
\* first of them on an odd number of shapes.
C28_Witness ==
    /\ mode = "threaded"
    /\ NoUnionFails
    /\ pc = "done"
    /\ Len(shapes) = 3
    /\ batch_size = 2
    /\ unions = 2

\* ---------------------------------------------------------------------
\* C29: a call of add_texture, cut_texture or a cached_workplane wrapper that
\* ends by raising (no faces and no solid to texture, or the generation
\* raises) leaves every cache file as it was, and whenever a call changes a
\* cache file it is the call's own key, after a miss whose generation has
\* completed.
C29_AbortedCallWritesNothing ==
    [][\A c \in Callers :
          /\ (caller'[c] # caller[c] /\ caller'[c].pc = "raised") => store' = store
          /\ (caller'[c] # caller[c] /\ store' # store) =>
                 /\ caller[c].pc = "miss"
                 /\ caller'[c].generated
                 /\ caller'[c].pc = "returned"
                 /\ \A k \in Keys :
                        store'[k] # store[k] => k = KeyOf(caller[c].inp)]_vars

\* One caller's texture call has raised for want of faces and the other's
\* because its generation raised; both had a cache key, no entry of which
\* exists.
C29_Witness ==
    /\ mode = "cache"
    /\ caller["A"].pc = "raised"
    /\ caller["A"].inp.api = "add_texture"
    /\ caller["A"].inp.workplane = 0
    /\ caller["A"].inp.cache_key = "k"
    /\ caller["B"].pc = "raised"
    /\ caller["B"].inp.api = "cut_texture"
    /\ caller["B"].inp.workplane = 1
    /\ caller["B"].inp.cache_key = "k"
    /\ store["k"] = Absent

\* ---------------------------------------------------------------------
\* C30: whenever the honeycomb generator has built its hexagons (the call got
\* past the height groups and found no file of ./caches to use instead), the
\* hexagons handed to merge_shapes_in_batches_threaded are as many as the
\* cells of the face that passed the inclusion test.
HandedToMerger(h) ==
    /\ h.pc \in {"returned", "raised"}
    /\ h.err # "ZeroDivisionError"
    /\ DOMAIN h.height_groups # {}
    /\ ~h.read_inner

C30_OnePrimitivePerIncludedCell ==
    \A c \in Callers :
        HandedToMerger(hcall[c]) =>
            Cardinality(HexShapes(hcall[c].height_groups, hcall[c].inp.face))
                = Cardinality(hcall[c].inp.face.included)

====
